---- MODULE Spec2Model ----
(***************************************************************************)
(* A model of the SM83-class instruction execution core of                 *)
(* Yoshie2000/GameboyEmulator: Bus, RegisterFile, Flags, ALU, IDU,         *)
(* ControlUnit and the CPU decode/execute step function clock_cycle().     *)
(*                                                                         *)
(* The CPU is modelled as a record s of its fields; every Rust method is   *)
(* an operator from a record (and its arguments) to the record after the   *)
(* call.  A Rust panic (failed assert!, explicit panic!, RefCell double    *)
(* borrow, checked arithmetic overflow) is recorded in s.fault; a faulted  *)
(* machine takes no further steps.                                         *)
(***************************************************************************)
EXTENDS Integers, Sequences, FiniteSets, TLC

VARIABLES
    data,                 \* RegisterFile.data : [u8; 16]
    data_bus,             \* Bus<u8>.value     : <<>> (None) or <<v>> (Some(v))
    address_bus,          \* Bus<u16>.value    : <<>> (None) or <<v>> (Some(v))
    buffer,               \* ALU.buffer
    ime,                  \* ControlUnit.ime
    current_instruction,  \* CPU.current_instruction : <<>> or <<instruction>>
    instruction_counter,  \* CPU.instruction_counter
    skip_pc_increment,    \* CPU.skip_pc_increment
    fault,                \* "none", or the kind of panic that ended the run
    overflow_checks,      \* build profile: TRUE = arithmetic overflow panics
    write_intent,         \* the core wrote the data bus during the last clock_cycle()
    turn,                 \* "bus": the collaborator drives the data bus; "clock": clock_cycle() runs
    script,               \* test driver: the byte choices it will still write to the data bus
    mem,                  \* memory collaborator: the stored bytes (address -> byte)
    cycles,               \* number of clock_cycle() calls made so far
    hist,                 \* history of the instruction in flight / last completed
    probe                 \* inputs and result of a directly applied ALU function

vars == <<data, data_bus, address_bus, buffer, ime, current_instruction,
          instruction_counter, skip_pc_increment, fault, overflow_checks,
          write_intent, turn, script, mem, cycles, hist, probe>>

cpu_vars == <<data, data_bus, address_bus, buffer, ime, current_instruction,
              instruction_counter, skip_pc_increment, fault, write_intent>>

----------------------------------------------------------------------------
(* Fixed-width integers *)

Byte == 0..255
Word == 0..65535

\* bit i of x  ((x >> i) & 1)
Bit(x, i) == (x \div (2 ^ i)) % 2

\* wrapping u8 arithmetic (overflowing_add(..).0, as u8)
Wrap8(x) == x % 256

RECURSIVE BitwiseAnd(_, _, _)
BitwiseAnd(x, y, n) ==
    IF n = 0 THEN 0
    ELSE (IF x % 2 = 1 /\ y % 2 = 1 THEN 1 ELSE 0)
         + 2 * BitwiseAnd(x \div 2, y \div 2, n - 1)

RECURSIVE BitwiseOr(_, _, _)
BitwiseOr(x, y, n) ==
    IF n = 0 THEN 0
    ELSE (IF x % 2 = 1 \/ y % 2 = 1 THEN 1 ELSE 0)
         + 2 * BitwiseOr(x \div 2, y \div 2, n - 1)

RECURSIVE BitwiseXor(_, _, _)
BitwiseXor(x, y, n) ==
    IF n = 0 THEN 0
    ELSE (IF (x % 2) # (y % 2) THEN 1 ELSE 0)
         + 2 * BitwiseXor(x \div 2, y \div 2, n - 1)

And8(x, y) == BitwiseAnd(x, y, 8)
Or8(x, y) == BitwiseOr(x, y, 8)
Xor8(x, y) == BitwiseXor(x, y, 8)

\* Option<T>
None == <<>>
Some(v) == <<v>>

\* a panic: the first one wins, later calls of the same cycle change nothing
panic(s, kind) == IF s.fault = "none" THEN [s EXCEPT !.fault = kind] ELSE s

----------------------------------------------------------------------------
(* bus.rs *)

bus_new == None
bus_write_dropped(v) == None
bus_write(v) == Some(v)
bus_clear == None
bus_read(bus) == bus

\* Option::unwrap_or_else(|| { println!(WARNING); 0 })
unwrap_or_zero(bus) == IF bus = None THEN 0 ELSE bus[1]

----------------------------------------------------------------------------
(* flags.rs *)

Flags_Z == 1
Flags_N == 2
Flags_H == 4
Flags_C == 8

get_z(f) == BitwiseAnd(f, Flags_Z, 8) # 0
get_n(f) == BitwiseAnd(f, Flags_N, 8) # 0
get_h(f) == BitwiseAnd(f, Flags_H, 8) # 0
get_c(f) == BitwiseAnd(f, Flags_C, 8) # 0

\* Flags::set: data | mask when v, data & !mask otherwise
flags_set(f, mask, v) ==
    IF v THEN BitwiseOr(f, mask, 8) ELSE BitwiseAnd(f, 255 - mask, 8)

set_z(f, v) == flags_set(f, Flags_Z, v)
set_n(f, v) == flags_set(f, Flags_N, v)
set_h(f, v) == flags_set(f, Flags_H, v)
set_c(f, v) == flags_set(f, Flags_C, v)

----------------------------------------------------------------------------
(* register_file.rs *)

\* enum Register, `*self as usize`
index == [IR |-> 0, IE |-> 1, A |-> 2, F |-> 3, B |-> 4, C |-> 5, D |-> 6,
          E |-> 7, H |-> 8, L |-> 9, W |-> 10, Z |-> 11, PC |-> 12,
          SP |-> 13, BC |-> 14, DE |-> 15, HL |-> 16, WZ |-> 17]

REGISTER_FILE_BYTES == 16
DATA_REGISTER_COUNT == 6
REGISTER_PAIR_COUNT == 4

DATA_REGISTERS == <<"B", "C", "D", "E", "H", "L">>

REGISTER_PAIRS == << <<"B", "C", "BC">>, <<"D", "E", "DE">>,
                     <<"H", "L", "HL">>, <<"W", "Z", "WZ">> >>

\* Register::data_register / register_pair; the assert! is checked by IsDataIndex
IsDataIndex(i) == i < DATA_REGISTER_COUNT
data_register(i) == DATA_REGISTERS[i + 1]
register_pair(i) == REGISTER_PAIRS[i + 1][3]

\* the width asserts of read_u8/write_u8 and read_u16/write_u16
Is8(reg) == index[reg] < index.PC
Is16(reg) == index[reg] >= index.PC

read_u8(s, reg) == s.data[index[reg]]

read_u16(s, reg) ==
    IF index[reg] < index.BC
    THEN LET i == 2 * index[reg] - index.PC
         IN s.data[i + 1] * 256 + s.data[i]
    ELSE LET pair == REGISTER_PAIRS[index[reg] - index.BC + 1]
         IN read_u8(s, pair[1]) * 256 + read_u8(s, pair[2])

read_u16_low(s, reg) == read_u16(s, reg) % 256
read_u16_high(s, reg) == read_u16(s, reg) \div 256

write_u8_unchecked(s, reg, value) ==
    IF index[reg] \in DOMAIN s.data THEN [s EXCEPT !.data[index[reg]] = value] ELSE s

write_u8(s, reg, value) ==
    IF ~Is8(reg) THEN panic(s, "assert")
    ELSE [s EXCEPT !.data[index[reg]] = value]

write_u16_low_byte_first(s, reg, value) ==
    IF ~Is16(reg) THEN panic(s, "assert")
    ELSE IF index[reg] < index.BC
    THEN LET i == 2 * index[reg] - index.PC
         IN [s EXCEPT !.data[i + 1] = value \div 256, !.data[i] = value % 256]
    ELSE LET pair == REGISTER_PAIRS[index[reg] - index.BC + 1]
         IN write_u8(write_u8(s, pair[1], value % 256), pair[2], value \div 256)

write_u16(s, reg, value) ==
    IF ~Is16(reg) THEN panic(s, "assert")
    ELSE IF index[reg] < index.BC
    THEN LET i == 2 * index[reg] - index.PC
         IN [s EXCEPT !.data[i + 1] = value \div 256, !.data[i] = value % 256]
    ELSE LET pair == REGISTER_PAIRS[index[reg] - index.BC + 1]
         IN write_u8(write_u8(s, pair[1], value \div 256), pair[2], value % 256)

\* RegisterFile::write_u16_low / write_u16_high are called by the ALU but are
\* not part of the sources; they replace one byte of a 16-bit register.
write_u16_low(s, reg, value) ==
    write_u16(s, reg, read_u16_high(s, reg) * 256 + value)

write_u16_high(s, reg, value) ==
    write_u16(s, reg, value * 256 + read_u16_low(s, reg))

read_data_bus_unwrap(s, reg) ==
    IF bus_read(s.data_bus) = None THEN panic(s, "unwrap on None")
    ELSE write_u8(s, reg, bus_read(s.data_bus)[1])

read_data_bus(s, reg) == write_u8(s, reg, unwrap_or_zero(bus_read(s.data_bus)))

write_data_bus(s, reg) ==
    [s EXCEPT !.data_bus = bus_write(read_u8(s, reg)), !.write_intent = TRUE]

write_address_bus(s, reg) == [s EXCEPT !.address_bus = bus_write(read_u16(s, reg))]

flags(s) == read_u8(s, "F")

write_flags(s, f) == write_u8(s, "F", f)

----------------------------------------------------------------------------
(* alu.rs *)

\* the for-loop of add_with_bitwise_carry, bit i onwards
RECURSIVE add_bits(_, _, _, _, _, _)
add_bits(a, b, i, carry, result, carry_bits) ==
    IF i = 8 THEN <<result, carry_bits>>
    ELSE LET bit_a == Bit(a, i)
             bit_b == Bit(b, i)
             sum == bit_a + bit_b + carry
             bit_result == sum % 2
             carry_out == (sum \div 2) % 2
         IN add_bits(a, b, i + 1, carry_out,
                     result + bit_result * (2 ^ i),
                     IF carry_out = 1 THEN carry_bits + (2 ^ i) ELSE carry_bits)

\* a deliberately wrong adder that drops the carry-in; C6 must reject it
add_without_carry_in(a, b, c) == add_bits(a, b, 0, 0, 0, 0)

\* fn add_with_bitwise_carry(a, b, c) -> (result, carry_bits)
add_with_bitwise_carry(a, b, c) ==
    add_bits(a, b, 0, IF c THEN 1 ELSE 0, 0, 0)

\* the for-loop of sub_with_bitwise_carry, bit i onwards
RECURSIVE sub_bits(_, _, _, _, _, _)
sub_bits(a, b, i, carry, result, carry_bits) ==
    IF i = 8 THEN <<result, carry_bits>>
    ELSE LET bit_a == Bit(a, i)
             bit_b == Bit(b, i)
             diff == bit_a - bit_b - carry
             borrow == diff < 0
             diff2 == IF borrow THEN diff + 2 ELSE diff
         IN sub_bits(a, b, i + 1, IF borrow THEN 1 ELSE 0,
                     result + (diff2 % 2) * (2 ^ i),
                     IF borrow THEN carry_bits + (2 ^ i) ELSE carry_bits)

\* a deliberately wrong subtractor that drops the borrow-in; C7 must reject it
sub_without_borrow_in(a, b, c) == sub_bits(a, b, 0, 0, 0, 0)

\* fn sub_with_bitwise_carry(a, b, c) -> (result, carry_bits)
sub_with_bitwise_carry(a, b, c) ==
    sub_bits(a, b, 0, IF c THEN 1 ELSE 0, 0, 0)

alu_read_data_register(s, reg) == [s EXCEPT !.buffer = read_u8(s, reg)]
alu_read_register_pair_low(s, reg) == [s EXCEPT !.buffer = read_u16_low(s, reg)]
alu_read_register_pair_high(s, reg) == [s EXCEPT !.buffer = read_u16_high(s, reg)]
alu_write_data_register(s, reg) == write_u8(s, reg, s.buffer)
alu_write_register_pair_low(s, reg) == write_u16_low(s, reg, s.buffer)
alu_write_register_pair_high(s, reg) == write_u16_high(s, reg, s.buffer)
alu_write_data_bus(s) ==
    [s EXCEPT !.data_bus = bus_write(s.buffer), !.write_intent = TRUE]

\* the flag updates shared by the arithmetic family: H from bit 3, C from bit 7
carry_h(bitwise_carry) == Bit(bitwise_carry, 3) = 1
carry_c(bitwise_carry) == Bit(bitwise_carry, 7) = 1

addi_register_16_low(s, reg) ==
    LET r == add_with_bitwise_carry(s.buffer, read_u16_low(s, reg), FALSE)
        f == set_c(set_h(set_n(set_z(flags(s), FALSE), FALSE), carry_h(r[2])), carry_c(r[2]))
    IN write_flags([s EXCEPT !.buffer = r[1]], f)

\* a deliberately wrong high-byte pass without the sign extension; C4 must reject it
addi_register_16_high_unsigned(s, reg) ==
    LET c == IF get_c(flags(s)) THEN 1 ELSE 0
    IN [s EXCEPT !.buffer = Wrap8(read_u16_high(s, reg) + c)]

addi_register_16_high(s, reg) ==
    LET adj == IF s.buffer \div 128 = 0 THEN 0 ELSE 255
        c == IF get_c(flags(s)) THEN 1 ELSE 0
    IN [s EXCEPT !.buffer = Wrap8(Wrap8(read_u16_high(s, reg) + c) + adj)]

add_register_16_low(s, reg) ==
    LET r == add_with_bitwise_carry(s.buffer, read_u16_low(s, reg), FALSE)
        f == set_c(set_h(set_n(flags(s), FALSE), carry_h(r[2])), carry_c(r[2]))
    IN write_flags([s EXCEPT !.buffer = r[1]], f)

add_register_16_high(s, reg) ==
    LET r == add_with_bitwise_carry(s.buffer, read_u16_high(s, reg), TRUE)
        f == set_c(set_h(set_n(flags(s), FALSE), carry_h(r[2])), carry_c(r[2]))
    IN write_flags([s EXCEPT !.buffer = r[1]], f)

add_register(s, reg, consider_carry) ==
    LET carry == IF ~consider_carry THEN FALSE ELSE get_c(flags(s))
        r == add_with_bitwise_carry(s.buffer, read_u8(s, reg), carry)
        f == set_c(set_h(set_n(set_z(flags(s), r[1] = 0), FALSE), carry_h(r[2])), carry_c(r[2]))
    IN write_flags([s EXCEPT !.buffer = r[1]], f)

sub_register(s, reg, consider_carry) ==
    LET carry == IF ~consider_carry THEN FALSE ELSE get_c(flags(s))
        r == sub_with_bitwise_carry(s.buffer, read_u8(s, reg), carry)
        f == set_c(set_h(set_n(set_z(flags(s), r[1] = 0), TRUE), carry_h(r[2])), carry_c(r[2]))
    IN write_flags([s EXCEPT !.buffer = r[1]], f)

increment(s) ==
    LET r == add_with_bitwise_carry(s.buffer, 1, FALSE)
        f == set_h(set_n(set_z(flags(s), r[1] = 0), FALSE), carry_h(r[2]))
    IN write_flags([s EXCEPT !.buffer = r[1]], f)

decrement(s) ==
    LET r == sub_with_bitwise_carry(s.buffer, 1, FALSE)
        f == set_h(set_n(set_z(flags(s), r[1] = 0), FALSE), carry_h(r[2]))
    IN write_flags([s EXCEPT !.buffer = r[1]], f)

alu_and(s, reg) ==
    LET result == And8(s.buffer, read_u8(s, reg))
        f == set_c(set_h(set_n(set_z(flags(s), result = 0), FALSE), TRUE), FALSE)
    IN write_flags([s EXCEPT !.buffer = result], f)

\* a deliberately wrong OR that leaves the C flag as it was; C36 must reject it
alu_or_keeps_carry(s, reg) ==
    LET result == Or8(s.buffer, read_u8(s, reg))
        f == set_h(set_n(set_z(flags(s), result = 0), FALSE), FALSE)
    IN write_flags([s EXCEPT !.buffer = result], f)

alu_or(s, reg) ==
    LET result == Or8(s.buffer, read_u8(s, reg))
        f == set_c(set_h(set_n(set_z(flags(s), result = 0), FALSE), FALSE), FALSE)
    IN write_flags([s EXCEPT !.buffer = result], f)

alu_xor(s, reg) ==
    LET result == Xor8(s.buffer, read_u8(s, reg))
        f == set_c(set_h(set_n(set_z(flags(s), result = 0), FALSE), FALSE), FALSE)
    IN write_flags([s EXCEPT !.buffer = result], f)

flip_carry(s) ==
    LET f0 == set_h(set_n(flags(s), FALSE), FALSE)
    IN write_flags(s, set_c(f0, ~get_c(f0)))

set_carry(s) ==
    write_flags(s, set_c(set_h(set_n(flags(s), FALSE), FALSE), TRUE))

decimal_adjust(s) ==
    LET f0 == flags(s)
        b0 == s.buffer
        \* add path, first if: (C || buffer > 0x09) -> buffer += 0x60, C = true
        hi == ~get_n(f0) /\ (get_c(f0) \/ b0 > 9)
        b1 == IF hi THEN Wrap8(b0 + 96) ELSE b0
        f1 == IF hi THEN set_c(f0, TRUE) ELSE f0
        \* add path, second if: (H || (buffer & 0x0f) > 0x09) -> buffer += 0x06
        lo == ~get_n(f0) /\ (get_h(f1) \/ And8(b1, 15) > 9)
        b2 == IF lo THEN Wrap8(b1 + 6) ELSE b1
        \* subtract path: C -> buffer -= 0x60 ; H -> buffer -= 0x06
        b3 == IF get_n(f0) /\ get_c(f0) THEN Wrap8(b2 + 256 - 96) ELSE b2
        b4 == IF get_n(f0) /\ get_h(f0) THEN Wrap8(b3 + 256 - 6) ELSE b3
        f2 == set_h(set_z(f1, b4 = 0), FALSE)
    IN write_flags([s EXCEPT !.buffer = b4], f2)

flip(s) ==
    LET f == set_h(set_n(flags(s), TRUE), TRUE)
    IN write_flags([s EXCEPT !.buffer = 255 - s.buffer], f)

rotate_left(s, replace_with_carry) ==
    LET high_bit == s.buffer \div 128
        replacement == IF replace_with_carry
                       THEN (IF get_c(flags(s)) THEN 1 ELSE 0) ELSE high_bit
        result == And8(Wrap8(s.buffer * 2), replacement)
        f == set_c(set_h(set_n(set_z(flags(s), result = 0), FALSE), FALSE), high_bit = 1)
    IN write_flags([s EXCEPT !.buffer = result], f)

rotate_right(s, replace_with_carry) ==
    LET low_bit == s.buffer % 2
        replacement == IF replace_with_carry
                       THEN (IF get_c(flags(s)) THEN 1 ELSE 0) ELSE low_bit
        result == And8(s.buffer \div 2, Wrap8(replacement * 128))
        f == set_c(set_h(set_n(set_z(flags(s), result = 0), FALSE), FALSE), low_bit = 1)
    IN write_flags([s EXCEPT !.buffer = result], f)

shift_left(s) ==
    LET high_bit == s.buffer \div 128
        result == Wrap8(s.buffer * 2)
        f == set_c(set_h(set_n(set_z(flags(s), result = 0), FALSE), FALSE), high_bit = 1)
    IN write_flags([s EXCEPT !.buffer = result], f)

shift_right(s, arithmetic) ==
    LET low_bit == s.buffer % 2
        replacement == IF arithmetic THEN s.buffer \div 128 ELSE 0
        result == And8(s.buffer \div 2, Wrap8(replacement * 128))
        f == set_c(set_h(set_n(set_z(flags(s), result = 0), FALSE), FALSE), low_bit = 1)
    IN write_flags([s EXCEPT !.buffer = result], f)

\* ALU::swap, test_bit, set_bit and reset_bit are called by the CB family but are
\* not part of the sources. swap exchanges the nibbles of the buffer, sets Z from
\* the result and clears N, H and C; test_bit sets Z to the complement of bit i and
\* leaves the buffer alone; set_bit / reset_bit set / clear bit i of the buffer.
\* A bit index outside 0..7 names no bit of the buffer.
swap(s) ==
    LET result == (s.buffer % 16) * 16 + (s.buffer \div 16)
        f == set_c(set_h(set_n(set_z(flags(s), result = 0), FALSE), FALSE), FALSE)
    IN write_flags([s EXCEPT !.buffer = result], f)

test_bit(s, i) == write_flags(s, set_z(flags(s), Bit(s.buffer, i) = 0))

set_bit(s, i) ==
    [s EXCEPT !.buffer = IF i < 8 /\ Bit(@, i) = 0 THEN @ + 2 ^ i ELSE @]

reset_bit(s, i) ==
    [s EXCEPT !.buffer = IF i < 8 /\ Bit(@, i) = 1 THEN @ - 2 ^ i ELSE @]

\* the ALU call of a CB-family variant (register and (HL) forms alike)
alu_cb(s, v, bit_idx) ==
    CASE v \in {"RLC", "RLC_HL"} -> rotate_left(s, FALSE)
      [] v \in {"RRC", "RRC_HL"} -> rotate_right(s, FALSE)
      [] v \in {"RL", "RL_HL"} -> rotate_left(s, TRUE)
      [] v \in {"RR", "RR_HL"} -> rotate_right(s, TRUE)
      [] v \in {"SLA", "SLA_HL"} -> shift_left(s)
      [] v \in {"SRA", "SRA_HL"} -> shift_right(s, TRUE)
      [] v \in {"SRL", "SRL_HL"} -> shift_right(s, FALSE)
      [] v \in {"SWAP", "SWAP_HL"} -> swap(s)
      [] v \in {"BIT", "BIT_HL"} -> test_bit(s, bit_idx)
      [] v \in {"RES", "RES_HL"} -> reset_bit(s, bit_idx)
      [] v \in {"SET", "SET_HL"} -> set_bit(s, bit_idx)

\* ALU::jump_relative_add is called by JR / JR cc but is not part of the
\* sources: the buffer (the signed offset e) is added to the low byte of PC,
\* and the returned adjustment (+1, 0, -1) is the carry into the high byte.
jump_relative_add(s) ==
    LET e == s.buffer
        r == add_with_bitwise_carry(e, read_u16_low(s, "PC"), FALSE)
        carry == carry_c(r[2])
        negative == e \div 128 = 1
        adjustment == IF carry /\ ~negative THEN 1
                      ELSE IF ~carry /\ negative THEN -1 ELSE 0
    IN <<[s EXCEPT !.buffer = r[1]], adjustment>>

----------------------------------------------------------------------------
(* idu.rs *)

\* u16 / u8 `+ 1` and `- 1`: a panic when the build checks overflow, wrapping otherwise
checked16(s, reg, v) ==
    IF v \in Word THEN write_u16(s, reg, v)
    ELSE IF s.overflow_checks THEN panic(s, "overflow")
    ELSE write_u16(s, reg, v % 65536)

checked8(s, reg, v) ==
    IF v \in Byte THEN write_u8(s, reg, v)
    ELSE IF s.overflow_checks THEN panic(s, "overflow")
    ELSE write_u8(s, reg, v % 256)

\* a deliberately wrong write_into that is off by one; C5 must reject it
idu_write_into_off_by_one(s, reg) ==
    checked16(s, reg, unwrap_or_zero(bus_read(s.address_bus)) + 1)

idu_write_into(s, reg) ==
    write_u16(s, reg, unwrap_or_zero(bus_read(s.address_bus)))

idu_increment_into(s, reg) ==
    checked16(s, reg, unwrap_or_zero(bus_read(s.address_bus)) + 1)

idu_decrement_into(s, reg) ==
    checked16(s, reg, unwrap_or_zero(bus_read(s.address_bus)) - 1)

idu_adjust_u8_into(s, reg, adjustment) ==
    LET address == unwrap_or_zero(bus_read(s.address_bus)) % 256
    IN IF adjustment \notin {1, -1, 0} THEN panic(s, "Illegal adjustment")
       ELSE checked8(s, reg, address + adjustment)

----------------------------------------------------------------------------
(* control_unit.rs *)

enable_interrupts(s) == [s EXCEPT !.ime = TRUE]
disable_interrupts(s) == [s EXCEPT !.ime = FALSE]

----------------------------------------------------------------------------
(* cpu.rs: decode *)

\* an Instruction is the tuple <<variant, operands...>>; a decode that panics
\* yields <<"PANIC", kind>>
decode_panic(kind) == <<"PANIC", kind>>
unimplemented == decode_panic("Unimplemented or invalid instruction")

\* Instruction::X(Register::data_register(i)), with data_register's assert!
with_data_register(variant, i) ==
    IF IsDataIndex(i) THEN <<variant, data_register(i)>> ELSE decode_panic("assert")

decode_00(b1, b2) ==
    IF b1 = 0 /\ b2 = 7 THEN <<"RLCA">>
    ELSE IF b1 = 1 /\ b2 = 7 THEN <<"RRCA">>
    ELSE IF b1 = 2 /\ b2 = 7 THEN <<"RLA">>
    ELSE IF b1 = 3 /\ b2 = 7 THEN <<"RRA">>
    ELSE IF b1 % 2 = 0 /\ b2 = 3 THEN <<"INC_16", register_pair(b1 \div 2)>>
    ELSE IF b1 % 2 = 1 /\ b2 = 3 THEN <<"DEC_16", register_pair(b1 \div 2)>>
    ELSE IF b1 % 2 = 1 /\ b2 = 1 THEN <<"ADD_HL_16", register_pair(b1 \div 2)>>
    ELSE IF b1 = 4 /\ b2 = 7 THEN <<"DAA">>
    ELSE IF b1 = 5 /\ b2 = 7 THEN <<"CPL">>
    ELSE IF b1 = 7 /\ b2 = 7 THEN <<"CCF">>
    ELSE IF b1 = 6 /\ b2 = 7 THEN <<"SCF">>
    ELSE IF b1 < 6 /\ b2 = 4 THEN <<"INC", data_register(b1)>>
    ELSE IF b1 = 6 /\ b2 = 4 THEN <<"INC_HL">>
    ELSE IF b1 < 6 /\ b2 = 5 THEN <<"DEC", data_register(b1)>>
    ELSE IF b1 = 6 /\ b2 = 5 THEN <<"DEC_HL">>
    ELSE IF b1 = 1 /\ b2 = 0 THEN <<"LD_SP">>
    ELSE IF b1 % 2 = 0 /\ b2 = 1 THEN <<"LD_RR", register_pair(b1 \div 2)>>
    ELSE IF b1 = 0 /\ b2 = 2 THEN <<"LDAM_BC">>
    ELSE IF b1 = 1 /\ b2 = 2 THEN <<"LDA_BC">>
    ELSE IF b1 = 2 /\ b2 = 2 THEN <<"LDAM_DE">>
    ELSE IF b1 = 3 /\ b2 = 2 THEN <<"LDA_DE">>
    ELSE IF b1 = 4 /\ b2 = 2 THEN <<"LDH_HLPM">>
    ELSE IF b1 = 5 /\ b2 = 2 THEN <<"LDH_HLP">>
    ELSE IF b1 = 6 /\ b2 = 2 THEN <<"LDH_HLMM">>
    ELSE IF b1 = 7 /\ b2 = 2 THEN <<"LDH_HLM">>
    ELSE IF b1 = 6 /\ b2 = 6 THEN <<"LDMI">>
    ELSE IF b2 = 6 THEN with_data_register("LDI", b1)
    ELSE IF b1 = 0 /\ b2 = 0 THEN <<"NOP">>
    ELSE IF b1 = 3 /\ b2 = 0 THEN <<"JR">>
    ELSE IF b1 >= 4 /\ b2 = 0
         THEN <<"JR_CC", (b1 - 4) % 2 = 1, ((b1 - 4) \div 2) % 2 = 1>>
    ELSE IF b1 = 2 /\ b2 = 0 THEN <<"STOP">>
    ELSE unimplemented

decode_01(b1, b2) ==
    IF b1 < 6 /\ b2 < 6 THEN <<"LDR", data_register(b1), data_register(b2)>>
    ELSE IF b2 = 6 THEN with_data_register("LD", b1)
    ELSE IF b1 = 6 THEN with_data_register("LDM", b2)
    ELSE IF b1 = 6 /\ b2 = 6 THEN <<"HALT">>
    ELSE unimplemented

decode_10(b1, b2) ==
    IF b1 = 4 /\ b2 < 6 THEN <<"AND", data_register(b2)>>
    ELSE IF b1 = 4 /\ b2 = 6 THEN <<"AND_HL">>
    ELSE IF b1 = 6 /\ b2 < 6 THEN <<"OR", data_register(b2)>>
    ELSE IF b1 = 6 /\ b2 = 6 THEN <<"OR_HL">>
    ELSE IF b1 = 5 /\ b2 < 6 THEN <<"XOR", data_register(b2)>>
    ELSE IF b1 = 5 /\ b2 = 6 THEN <<"XOR_HL">>
    ELSE IF b1 = 7 /\ b2 < 6 THEN <<"CP", data_register(b2)>>
    ELSE IF b1 = 7 /\ b2 = 6 THEN <<"CP_HL">>
    ELSE IF b1 = 1 /\ b2 = 6 THEN <<"ADC_HL">>
    ELSE IF b1 = 1 /\ b2 < 6 THEN <<"ADC", data_register(b2)>>
    ELSE IF b1 = 0 /\ b2 < 6 THEN <<"ADD", data_register(b2)>>
    ELSE IF b1 = 0 /\ b2 = 6 THEN <<"ADD_HL">>
    ELSE IF b1 = 3 /\ b2 = 6 THEN <<"SBC_HL">>
    ELSE IF b1 = 3 /\ b2 < 6 THEN <<"SBC", data_register(b2)>>
    ELSE IF b1 = 2 /\ b2 < 6 THEN <<"SUB", data_register(b2)>>
    ELSE IF b1 = 2 /\ b2 = 6 THEN <<"SUB_HL">>
    ELSE unimplemented

decode_11(b1, b2) ==
    IF b1 = 1 /\ b2 = 3 THEN <<"CB">>
    ELSE IF b1 = 5 /\ b2 = 0 THEN <<"ADD_SPE">>
    ELSE IF b1 = 7 /\ b2 = 6 THEN <<"CPI">>
    ELSE IF b1 = 0 /\ b2 = 6 THEN <<"ADDI">>
    ELSE IF b1 = 2 /\ b2 = 6 THEN <<"SUBI">>
    ELSE IF b1 = 1 /\ b2 = 6 THEN <<"ADCI">>
    ELSE IF b1 = 3 /\ b2 = 6 THEN <<"SBCI">>
    ELSE IF b1 = 4 /\ b2 = 6 THEN <<"ANDI">>
    ELSE IF b1 = 6 /\ b2 = 6 THEN <<"ORI">>
    ELSE IF b1 = 5 /\ b2 = 6 THEN <<"XORI">>
    ELSE IF b1 = 7 /\ b2 = 0 THEN <<"LD_SPE">>
    ELSE IF b1 % 2 = 0 /\ b2 = 1 THEN <<"POP", register_pair(b1 \div 2)>>
    ELSE IF b1 % 2 = 0 /\ b2 = 5 THEN <<"PUSH", register_pair(b1 \div 2)>>
    ELSE IF b1 = 7 /\ b2 = 1 THEN <<"LD_SP_HL">>
    ELSE IF b1 = 7 /\ b2 = 2 THEN <<"LDAD">>
    ELSE IF b1 = 6 /\ b2 = 2 THEN <<"LDH">>
    ELSE IF b1 = 5 /\ b2 = 2 THEN <<"LDAMD">>
    ELSE IF b1 = 4 /\ b2 = 2 THEN <<"LDH_M">>
    ELSE IF b1 = 6 /\ b2 = 0 THEN <<"LDH_D">>
    ELSE IF b1 = 4 /\ b2 = 0 THEN <<"LDH_DM">>
    ELSE IF b1 = 0 /\ b2 = 3 THEN <<"JPI">>
    ELSE IF b1 = 5 /\ b2 = 1 THEN <<"JP_HL">>
    ELSE IF b1 < 4 /\ b2 = 2 THEN <<"JP_CCI", b1 % 2 = 1, (b1 \div 2) % 2 = 1>>
    ELSE IF b1 = 1 /\ b2 = 5 THEN <<"CALL">>
    ELSE IF b1 < 4 /\ b2 = 4 THEN <<"CALL_CC", b1 % 2 = 1, (b1 \div 2) % 2 = 1>>
    ELSE IF b1 = 1 /\ b2 = 1 THEN <<"RET">>
    ELSE IF b1 < 4 /\ b2 = 0 THEN <<"RET_CC", b1 % 2 = 1, (b1 \div 2) % 2 = 1>>
    ELSE IF b1 = 3 /\ b2 = 1 THEN <<"RETI">>
    ELSE IF b2 = 7 THEN <<"RST", b1 * 8>>
    ELSE IF b1 = 6 /\ b2 = 3 THEN <<"DI">>
    ELSE IF b1 = 7 /\ b2 = 3 THEN <<"EI">>
    ELSE unimplemented

\* CPU::decode applied to the opcode byte held in IR
decode_opcode(instruction) ==
    LET instruction_header == instruction \div 64
        instruction_body_1 == (instruction \div 8) % 8
        instruction_body_2 == instruction % 8
    IN CASE instruction_header = 0 -> decode_00(instruction_body_1, instruction_body_2)
         [] instruction_header = 1 -> decode_01(instruction_body_1, instruction_body_2)
         [] instruction_header = 2 -> decode_10(instruction_body_1, instruction_body_2)
         [] instruction_header = 3 -> decode_11(instruction_body_1, instruction_body_2)

decode(s) == decode_opcode(read_u8(s, "IR"))

\* pub fn decode_cb(&mut self): the if-chain over the two nibbles of the opcode.
\* The SWAP branches follow `b1 = 3 /\ b2 < 14` and the RES / SET branches
\* (b1 >= 8, b1 >= 12) follow `b1 >= 4`; they are written out as in the source.
decode_cb(instruction) ==
    LET b1 == (instruction \div 16) % 16
        b2 == instruction % 16
        bit_idx == 2 * (b1 - 4) + (IF b2 >= 8 THEN 1 ELSE 0)
    IN IF b1 = 0 /\ b2 < 6 THEN with_data_register("RLC", b2)
       ELSE IF b1 = 0 /\ b2 = 6 THEN <<"RLC_HL">>
       ELSE IF b1 = 0 /\ b2 = 7 THEN <<"RLC", "A">>
       ELSE IF b1 = 0 /\ b2 < 14 THEN with_data_register("RRC", b2 - 8)
       ELSE IF b1 = 0 /\ b2 = 14 THEN <<"RRC_HL">>
       ELSE IF b1 = 0 /\ b2 = 15 THEN <<"RRC", "A">>
       ELSE IF b1 = 1 /\ b2 < 6 THEN with_data_register("RL", b2)
       ELSE IF b1 = 1 /\ b2 = 6 THEN <<"RL_HL">>
       ELSE IF b1 = 1 /\ b2 = 7 THEN <<"RL", "A">>
       ELSE IF b1 = 1 /\ b2 < 14 THEN with_data_register("RR", b2 - 8)
       ELSE IF b1 = 1 /\ b2 = 14 THEN <<"RR_HL">>
       ELSE IF b1 = 1 /\ b2 = 15 THEN <<"RR", "A">>
       ELSE IF b1 = 2 /\ b2 < 6 THEN with_data_register("SLA", b2)
       ELSE IF b1 = 2 /\ b2 = 6 THEN <<"SLA_HL">>
       ELSE IF b1 = 2 /\ b2 = 7 THEN <<"SLA", "A">>
       ELSE IF b1 = 2 /\ b2 < 14 THEN with_data_register("SRA", b2 - 8)
       ELSE IF b1 = 2 /\ b2 = 14 THEN <<"SRA_HL">>
       ELSE IF b1 = 2 /\ b2 = 15 THEN <<"SRA", "A">>
       ELSE IF b1 = 3 /\ b2 < 14 THEN with_data_register("SRL", b2)
       ELSE IF b1 = 3 /\ b2 = 14 THEN <<"SRL_HL">>
       ELSE IF b1 = 3 /\ b2 = 15 THEN <<"SRL", "A">>
       ELSE IF b1 = 3 /\ b2 < 6 THEN with_data_register("SWAP", b2)
       ELSE IF b1 = 3 /\ b2 = 6 THEN <<"SWAP_HL">>
       ELSE IF b1 = 3 /\ b2 = 7 THEN <<"SWAP", "A">>
       ELSE IF b1 >= 4 THEN
            (IF b2 % 8 < 6 THEN <<"BIT", bit_idx, data_register(b2 % 8)>>
             ELSE IF b2 % 8 = 6 THEN <<"BIT_HL", bit_idx>>
             ELSE <<"BIT", bit_idx, "A">>)
       ELSE IF b1 >= 8 THEN
            (IF b2 % 8 < 6 THEN <<"RES", 2 * (b1 - 8) + (IF b2 >= 8 THEN 1 ELSE 0),
                                  data_register(b2 % 8)>>
             ELSE IF b2 % 8 = 6 THEN <<"RES_HL", 2 * (b1 - 8) + (IF b2 >= 8 THEN 1 ELSE 0)>>
             ELSE <<"RES", 2 * (b1 - 8) + (IF b2 >= 8 THEN 1 ELSE 0), "A">>)
       ELSE IF b1 >= 12 THEN
            (IF b2 % 8 < 6 THEN <<"SET", 2 * (b1 - 12) + (IF b2 >= 8 THEN 1 ELSE 0),
                                  data_register(b2 % 8)>>
             ELSE IF b2 % 8 = 6 THEN <<"SET_HL", 2 * (b1 - 12) + (IF b2 >= 8 THEN 1 ELSE 0)>>
             ELSE <<"SET", 2 * (b1 - 12) + (IF b2 >= 8 THEN 1 ELSE 0), "A">>)
       ELSE unimplemented

----------------------------------------------------------------------------
(* cpu.rs: execute, one operator per instruction variant *)

next_step(s) == [s EXCEPT !.instruction_counter = @ + 1]
goto_step(s, k) == [s EXCEPT !.instruction_counter = k]
skip_pc(s) == [s EXCEPT !.skip_pc_increment = TRUE]
complete(s) == [s EXCEPT !.current_instruction = None]
substitute_and_step(s, ins) ==
    [s EXCEPT !.current_instruction = Some(ins), !.instruction_counter = @ + 1]
substitute(s, ins) == [s EXCEPT !.current_instruction = Some(ins)]
bad_counter(s) == panic(s, "Unimplemented instruction counter for instruction")

\* self.address_bus.borrow_mut().write(v) / self.data_bus.borrow_mut().write(v)
address_bus_write(s, v) == [s EXCEPT !.address_bus = bus_write(v)]
data_bus_write(s, v) == [s EXCEPT !.data_bus = bus_write(v), !.write_intent = TRUE]

\* self.register_file.borrow_mut().write_u16(reg, self.register_file.borrow().read_u16(src))
\* and its borrow_mut()/borrow_mut() twin: the receiver's RefMut guard is created first
\* and is still alive when the argument borrows the same RefCell, so the argument's
\* borrow panics (BorrowError / BorrowMutError) before write_u16 runs.
write_u16_borrowed_twice(s, reg, src) == panic(s, "already borrowed")

\* flag_value == value, for the (value, flag) operands of the conditional variants
condition(s, value, flag) ==
    LET flag_value == IF flag THEN get_c(flags(s)) ELSE get_z(flags(s))
    IN flag_value = value

exec_LDI(s, r) ==
    CASE s.instruction_counter = 0 -> next_step(read_data_bus(s, "Z"))
      [] s.instruction_counter = 1 ->
            complete(alu_write_data_register(alu_read_data_register(s, "Z"), r))
      [] OTHER -> bad_counter(s)

exec_LD(s, r) ==
    CASE s.instruction_counter = 0 ->
            next_step(skip_pc(read_data_bus(write_address_bus(s, "HL"), "Z")))
      [] s.instruction_counter = 1 ->
            complete(alu_write_data_register(alu_read_data_register(s, "Z"), r))
      [] OTHER -> bad_counter(s)

exec_LDM(s, r) ==
    CASE s.instruction_counter = 0 ->
            next_step(skip_pc(write_data_bus(write_address_bus(s, "HL"), r)))
      [] s.instruction_counter = 1 -> complete(s)
      [] OTHER -> bad_counter(s)

exec_LDMI(s) ==
    CASE s.instruction_counter = 0 -> next_step(read_data_bus(s, "Z"))
      [] s.instruction_counter = 1 ->
            next_step(skip_pc(write_data_bus(write_address_bus(s, "HL"), "Z")))
      [] s.instruction_counter = 2 -> complete(s)
      [] OTHER -> bad_counter(s)

\* LDA_BC / LDA_DE (rr = BC, DE)
exec_LDA_rr(s, rr) ==
    CASE s.instruction_counter = 0 ->
            next_step(skip_pc(read_data_bus(write_address_bus(s, rr), "Z")))
      [] s.instruction_counter = 1 ->
            complete(alu_write_data_register(alu_read_data_register(s, "Z"), "A"))
      [] OTHER -> bad_counter(s)

\* LDAM_BC / LDAM_DE (rr = BC, DE)
exec_LDAM_rr(s, rr) ==
    CASE s.instruction_counter = 0 ->
            next_step(skip_pc(write_data_bus(write_address_bus(s, rr), "A")))
      [] s.instruction_counter = 1 -> complete(s)
      [] OTHER -> bad_counter(s)

exec_LDAD(s) ==
    CASE s.instruction_counter = 0 -> next_step(read_data_bus(s, "Z"))
      [] s.instruction_counter = 1 -> next_step(read_data_bus(s, "W"))
      [] s.instruction_counter = 2 -> next_step(skip_pc(write_address_bus(s, "WZ")))
      [] s.instruction_counter = 3 ->
            complete(alu_write_data_register(alu_read_data_register(s, "Z"), "A"))
      [] OTHER -> bad_counter(s)

exec_LDAMD(s) ==
    CASE s.instruction_counter = 0 -> next_step(read_data_bus(s, "Z"))
      [] s.instruction_counter = 1 -> next_step(read_data_bus(s, "W"))
      [] s.instruction_counter = 2 ->
            next_step(skip_pc(write_data_bus(write_address_bus(s, "WZ"), "A")))
      [] s.instruction_counter = 3 -> complete(s)
      [] OTHER -> bad_counter(s)

exec_LDH(s) ==
    CASE s.instruction_counter = 0 ->
            LET address == 65280 + read_u8(s, "C")
            IN next_step(skip_pc(read_data_bus(address_bus_write(s, address), "Z")))
      [] s.instruction_counter = 1 ->
            complete(alu_write_data_register(alu_read_data_register(s, "Z"), "A"))
      [] OTHER -> bad_counter(s)

exec_LDH_M(s) ==
    CASE s.instruction_counter = 0 ->
            LET address == 65280 + read_u8(s, "C")
            IN next_step(skip_pc(write_data_bus(address_bus_write(s, address), "A")))
      [] s.instruction_counter = 1 -> complete(s)
      [] OTHER -> bad_counter(s)

exec_LDH_D(s) ==
    CASE s.instruction_counter = 0 -> next_step(read_data_bus(s, "Z"))
      [] s.instruction_counter = 1 ->
            LET address == 65280 + read_u8(s, "Z")
            IN next_step(skip_pc(read_data_bus(address_bus_write(s, address), "Z")))
      [] s.instruction_counter = 2 ->
            complete(alu_write_data_register(alu_read_data_register(s, "Z"), "A"))
      [] OTHER -> bad_counter(s)

exec_LDH_DM(s) ==
    CASE s.instruction_counter = 0 -> next_step(read_data_bus(s, "Z"))
      [] s.instruction_counter = 1 ->
            LET address == 65280 + read_u8(s, "Z")
            IN next_step(skip_pc(write_data_bus(address_bus_write(s, address), "A")))
      [] s.instruction_counter = 2 -> complete(s)
      [] OTHER -> bad_counter(s)

\* LDH_HLM (up = FALSE) / LDH_HLP (up = TRUE): LD A,(HL-) / LD A,(HL+)
exec_LDH_HL_load(s, up) ==
    CASE s.instruction_counter = 0 ->
            LET s1 == read_data_bus(write_address_bus(s, "HL"), "Z")
                s2 == IF up THEN idu_increment_into(s1, "HL")
                      ELSE idu_decrement_into(s1, "HL")
            IN next_step(skip_pc(s2))
      [] s.instruction_counter = 1 ->
            complete(alu_write_data_register(alu_read_data_register(s, "Z"), "A"))
      [] OTHER -> bad_counter(s)

\* LDH_HLMM (up = FALSE) / LDH_HLPM (up = TRUE): LD (HL-),A / LD (HL+),A
exec_LDH_HL_store(s, up) ==
    CASE s.instruction_counter = 0 ->
            LET s1 == write_data_bus(write_address_bus(s, "HL"), "A")
                s2 == IF up THEN idu_increment_into(s1, "HL")
                      ELSE idu_decrement_into(s1, "HL")
            IN next_step(skip_pc(s2))
      [] s.instruction_counter = 1 -> complete(s)
      [] OTHER -> bad_counter(s)

\* a deliberately wrong LD rr,nn that latches the high byte first; C3 must reject it
exec_LD_RR_swapped(s, r) ==
    CASE s.instruction_counter = 0 -> next_step(read_data_bus(s, "W"))
      [] s.instruction_counter = 1 -> next_step(read_data_bus(s, "Z"))
      [] s.instruction_counter = 2 -> complete(write_u16(s, r, read_u16(s, "WZ")))
      [] OTHER -> bad_counter(s)

exec_LD_RR(s, r) ==
    CASE s.instruction_counter = 0 -> next_step(read_data_bus(s, "Z"))
      [] s.instruction_counter = 1 -> next_step(read_data_bus(s, "W"))
      [] s.instruction_counter = 2 ->
            LET wz == read_u16(s, "WZ")
            IN complete(write_u16(s, r, wz))
      [] OTHER -> bad_counter(s)

exec_LD_SP(s) ==
    CASE s.instruction_counter = 0 -> next_step(read_data_bus(s, "Z"))
      [] s.instruction_counter = 1 -> next_step(read_data_bus(s, "W"))
      [] s.instruction_counter = 2 ->
            LET s1 == write_address_bus(s, "WZ")
                s2 == data_bus_write(s1, read_u16_low(s1, "SP"))
            IN next_step(skip_pc(idu_increment_into(s2, "WZ")))
      [] s.instruction_counter = 3 ->
            LET s1 == write_address_bus(s, "WZ")
                s2 == data_bus_write(s1, read_u16_low(s1, "SP"))
            IN next_step(skip_pc(s2))
      [] s.instruction_counter = 4 -> complete(s)
      [] OTHER -> bad_counter(s)

exec_LD_SP_HL(s) ==
    CASE s.instruction_counter = 0 ->
            next_step(skip_pc(idu_write_into(write_address_bus(s, "HL"), "SP")))
      [] s.instruction_counter = 1 -> complete(s)
      [] OTHER -> bad_counter(s)

\* a deliberately wrong PUSH that presents the low byte first; C27 must reject it
exec_PUSH_low_byte_first(s, r) ==
    CASE s.instruction_counter = 0 ->
            next_step(skip_pc(idu_decrement_into(write_address_bus(s, "SP"), "SP")))
      [] s.instruction_counter = 1 ->
            LET s1 == write_address_bus(s, "SP")
                s2 == data_bus_write(s1, read_u16_low(s1, r))
            IN next_step(skip_pc(idu_decrement_into(s2, "SP")))
      [] s.instruction_counter = 2 ->
            LET s1 == write_address_bus(s, "SP")
                s2 == data_bus_write(s1, read_u16_high(s1, r))
            IN next_step(skip_pc(idu_write_into(s2, "SP")))
      [] s.instruction_counter = 3 -> complete(s)
      [] OTHER -> bad_counter(s)

exec_PUSH(s, r) ==
    CASE s.instruction_counter = 0 ->
            next_step(skip_pc(idu_decrement_into(write_address_bus(s, "SP"), "SP")))
      [] s.instruction_counter = 1 ->
            LET s1 == write_address_bus(s, "SP")
                s2 == data_bus_write(s1, read_u16_high(s1, r))
            IN next_step(skip_pc(idu_decrement_into(s2, "SP")))
      [] s.instruction_counter = 2 ->
            LET s1 == write_address_bus(s, "SP")
                s2 == data_bus_write(s1, read_u16_low(s1, r))
            IN next_step(skip_pc(idu_write_into(s2, "SP")))
      [] s.instruction_counter = 3 -> complete(s)
      [] OTHER -> bad_counter(s)

exec_POP(s, r) ==
    CASE s.instruction_counter = 0 ->
            LET s1 == read_data_bus(write_address_bus(s, "SP"), "Z")
            IN next_step(skip_pc(idu_increment_into(s1, "SP")))
      [] s.instruction_counter = 1 ->
            LET s1 == read_data_bus(write_address_bus(s, "SP"), "W")
            IN next_step(skip_pc(idu_increment_into(s1, "SP")))
      [] s.instruction_counter = 2 ->
            complete(write_u16_borrowed_twice(s, r, "WZ"))
      [] OTHER -> bad_counter(s)

exec_LD_SPE(s) ==
    CASE s.instruction_counter = 0 -> next_step(read_data_bus(s, "Z"))
      [] s.instruction_counter = 1 ->
            LET s1 == address_bus_write(s, 0)
                s2 == alu_read_data_register(s1, "Z")
                s3 == addi_register_16_low(s2, "SP")
                s4 == alu_write_register_pair_low(s3, "HL")
            IN next_step(skip_pc(s4))
      [] s.instruction_counter = 2 ->
            LET s1 == alu_read_data_register(s, "Z")
                s2 == addi_register_16_high(s1, "SP")
                s3 == alu_write_register_pair_high(s2, "HL")
            IN complete(s3)
      [] OTHER -> bad_counter(s)

\* INC_HL (up = TRUE) / DEC_HL (up = FALSE)
exec_INCDEC_HL(s, up) ==
    CASE s.instruction_counter = 0 ->
            next_step(skip_pc(read_data_bus(write_address_bus(s, "HL"), "Z")))
      [] s.instruction_counter = 1 ->
            LET s1 == alu_read_data_register(s, "Z")
                s2 == IF up THEN increment(s1) ELSE decrement(s1)
            IN next_step(skip_pc(alu_write_data_bus(s2)))
      [] s.instruction_counter = 2 -> complete(s)
      [] OTHER -> bad_counter(s)

exec_INC_16(s, r) ==
    CASE s.instruction_counter = 0 ->
            next_step(skip_pc(idu_increment_into(write_address_bus(s, r), r)))
      [] s.instruction_counter = 1 -> complete(s)
      [] OTHER -> bad_counter(s)

exec_DEC_16(s, r) ==
    CASE s.instruction_counter = 0 ->
            next_step(skip_pc(idu_decrement_into(write_address_bus(s, r), r)))
      [] s.instruction_counter = 1 -> complete(s)
      [] OTHER -> bad_counter(s)

exec_ADD_HL_16(s, r) ==
    CASE s.instruction_counter = 0 ->
            LET s1 == address_bus_write(s, 0)
                s2 == alu_read_register_pair_low(s1, "HL")
                s3 == add_register_16_low(s2, r)
                s4 == alu_write_register_pair_low(s3, "HL")
            IN next_step(skip_pc(s4))
      [] s.instruction_counter = 1 ->
            LET s1 == alu_read_register_pair_low(s, "HL")
                s2 == add_register_16_high(s1, r)
                s3 == alu_write_register_pair_low(s2, "HL")
            IN complete(s3)
      [] OTHER -> bad_counter(s)

exec_ADD_SPE(s) ==
    CASE s.instruction_counter = 0 -> next_step(read_data_bus(s, "Z"))
      [] s.instruction_counter = 1 ->
            LET s1 == address_bus_write(s, 0)
                s2 == alu_read_data_register(s1, "Z")
                s3 == addi_register_16_low(s2, "SP")
                s4 == alu_write_register_pair_low(s3, "WZ")
            IN next_step(skip_pc(s4))
      [] s.instruction_counter = 2 ->
            LET s1 == address_bus_write(s, 0)
                s2 == alu_read_data_register(s1, "Z")
                s3 == addi_register_16_high(s2, "SP")
                s4 == alu_write_register_pair_high(s3, "WZ")
            IN next_step(skip_pc(s4))
      [] s.instruction_counter = 3 ->
            complete(write_u16_borrowed_twice(s, "SP", "WZ"))
      [] OTHER -> bad_counter(s)

\* RLC_HL, RRC_HL, RL_HL, RR_HL, SLA_HL, SRA_HL, SRL_HL, SWAP_HL, RES_HL, SET_HL:
\* read (HL) into Z, run the ALU on it and put the result on the data bus
exec_CB_HL(s, v, bit_idx) ==
    CASE s.instruction_counter = 0 ->
            next_step(skip_pc(read_data_bus(write_address_bus(s, "HL"), "Z")))
      [] s.instruction_counter = 1 ->
            next_step(skip_pc(alu_write_data_bus(
                alu_cb(alu_read_data_register(write_address_bus(s, "HL"), "Z"), v, bit_idx))))
      [] s.instruction_counter = 2 -> complete(s)
      [] OTHER -> bad_counter(s)

exec_BIT_HL(s, bit_idx) ==
    CASE s.instruction_counter = 0 ->
            next_step(skip_pc(read_data_bus(write_address_bus(s, "HL"), "Z")))
      [] s.instruction_counter = 1 ->
            complete(test_bit(alu_read_data_register(write_address_bus(s, "HL"), "Z"), bit_idx))
      [] OTHER -> bad_counter(s)

\* Instruction::CB: latch the second opcode byte into IR and decode it
exec_CB(s) ==
    LET d == decode_cb(unwrap_or_zero(bus_read(s.data_bus)))
    IN IF d[1] = "PANIC" THEN panic(s, d[2])
       ELSE substitute(read_data_bus(s, "IR"), d)

exec_JPI(s) ==
    CASE s.instruction_counter = 0 -> next_step(read_data_bus(s, "Z"))
      [] s.instruction_counter = 1 -> next_step(read_data_bus(s, "W"))
      [] s.instruction_counter = 2 ->
            LET s1 == address_bus_write(s, 0)
                s2 == write_u16_borrowed_twice(s1, "PC", "WZ")
            IN next_step(skip_pc(s2))
      [] s.instruction_counter = 3 -> complete(s)
      [] OTHER -> bad_counter(s)

exec_JP_CCI(s, value, flag) ==
    CASE s.instruction_counter = 0 -> next_step(read_data_bus(s, "Z"))
      [] s.instruction_counter = 1 -> next_step(read_data_bus(s, "W"))
      [] s.instruction_counter = 2 ->
            IF condition(s, value, flag)
            THEN LET s1 == address_bus_write(s, 0)
                     s2 == write_u16_borrowed_twice(s1, "PC", "WZ")
                 IN next_step(s2)
            ELSE complete(s)
      [] s.instruction_counter = 3 -> complete(s)
      [] OTHER -> bad_counter(s)

\* the taken path of JR / JR cc: step `first` adds the offset, the next one jumps
jump_relative(s, first) ==
    IF s.instruction_counter = first
    THEN LET s1 == alu_read_data_register(s, "Z")
             ja == jump_relative_add(s1)
             s2 == alu_write_data_register(ja[1], "Z")
             s3 == address_bus_write(s2, read_u16_high(s2, "PC"))
             s4 == idu_adjust_u8_into(s3, "W", ja[2])
         IN next_step(skip_pc(s4))
    ELSE complete(skip_pc(idu_increment_into(write_address_bus(s, "WZ"), "PC")))

exec_JR(s) ==
    CASE s.instruction_counter = 0 -> next_step(read_data_bus(s, "Z"))
      [] s.instruction_counter \in {1, 2} -> jump_relative(s, 1)
      [] OTHER -> bad_counter(s)

exec_JR_CC(s, value, flag) ==
    CASE s.instruction_counter = 0 ->
            LET s1 == read_data_bus(s, "Z")
            IN IF condition(s1, value, flag) THEN goto_step(s1, 2) ELSE goto_step(s1, 1)
      [] s.instruction_counter = 1 -> complete(s)
      [] s.instruction_counter \in {2, 3} -> jump_relative(s, 2)
      [] OTHER -> bad_counter(s)

\* the push sequence shared by CALL (first = 2) and CALL cc (first = 3)
call_push(s, first) ==
    CASE s.instruction_counter = first ->
            next_step(idu_decrement_into(write_address_bus(s, "SP"), "SP"))
      [] s.instruction_counter = first + 1 ->
            LET s1 == write_address_bus(s, "SP")
                s2 == data_bus_write(s1, read_u16_high(s1, "PC"))
            IN next_step(idu_decrement_into(s2, "SP"))
      [] s.instruction_counter = first + 2 ->
            LET s1 == write_address_bus(s, "SP")
                s2 == data_bus_write(s1, read_u16_low(s1, "PC"))
                s3 == idu_write_into(s2, "SP")
                s4 == write_u16_borrowed_twice(s3, "SP", "WZ")
            IN next_step(s4)
      [] s.instruction_counter = first + 3 -> complete(s)

exec_CALL(s) ==
    CASE s.instruction_counter = 0 -> next_step(read_data_bus(s, "Z"))
      [] s.instruction_counter = 1 -> next_step(read_data_bus(s, "W"))
      [] s.instruction_counter \in 2..5 -> call_push(s, 2)
      [] OTHER -> bad_counter(s)

exec_CALL_CC(s, value, flag) ==
    CASE s.instruction_counter = 0 -> next_step(read_data_bus(s, "Z"))
      [] s.instruction_counter = 1 ->
            LET s1 == read_data_bus(s, "W")
            IN IF condition(s1, value, flag) THEN goto_step(s1, 3) ELSE goto_step(s1, 2)
      [] s.instruction_counter = 2 -> complete(s)
      [] s.instruction_counter \in 3..6 -> call_push(s, 3)
      [] OTHER -> bad_counter(s)

\* the pop sequence shared by RET, RETI (first = 0) and RET cc (first = 1)
ret_pop(s, first, enable) ==
    CASE s.instruction_counter = first ->
            LET s1 == read_data_bus(write_address_bus(s, "SP"), "Z")
            IN next_step(skip_pc(idu_increment_into(s1, "SP")))
      [] s.instruction_counter = first + 1 ->
            LET s1 == read_data_bus(write_address_bus(s, "SP"), "W")
            IN next_step(skip_pc(idu_increment_into(s1, "SP")))
      [] s.instruction_counter = first + 2 ->
            LET s1 == address_bus_write(s, 0)
                s2 == write_u16_borrowed_twice(s1, "PC", "WZ")
                s3 == IF enable THEN enable_interrupts(s2) ELSE s2
            IN next_step(skip_pc(s3))
      [] s.instruction_counter = first + 3 -> complete(s)

exec_RET(s) ==
    CASE s.instruction_counter \in 0..3 -> ret_pop(s, 0, FALSE)
      [] OTHER -> bad_counter(s)

\* a deliberately wrong RET cc whose not-taken jump lands past the last step;
\* C11 must reject it
exec_RET_CC_past_last_step(s, value, flag) ==
    CASE s.instruction_counter = 0 ->
            LET s1 == skip_pc(address_bus_write(s, 0))
            IN IF condition(s1, value, flag) THEN goto_step(s1, 1) ELSE goto_step(s1, 5)
      [] s.instruction_counter \in 1..4 -> ret_pop(s, 1, FALSE)
      [] OTHER -> bad_counter(s)

exec_RET_CC(s, value, flag) ==
    CASE s.instruction_counter = 0 ->
            LET s1 == skip_pc(address_bus_write(s, 0))
            IN IF condition(s1, value, flag) THEN goto_step(s1, 1) ELSE goto_step(s1, 4)
      [] s.instruction_counter \in 1..4 -> ret_pop(s, 1, FALSE)
      [] OTHER -> bad_counter(s)

exec_RETI(s) ==
    CASE s.instruction_counter \in 0..3 -> ret_pop(s, 0, TRUE)
      [] OTHER -> bad_counter(s)

exec_RST(s, address) ==
    CASE s.instruction_counter = 0 ->
            next_step(skip_pc(idu_decrement_into(write_address_bus(s, "SP"), "SP")))
      [] s.instruction_counter = 1 ->
            LET s1 == write_address_bus(s, "SP")
                s2 == data_bus_write(s1, read_u16_high(s1, "PC"))
            IN next_step(skip_pc(idu_decrement_into(s2, "SP")))
      [] s.instruction_counter = 2 ->
            LET s1 == write_address_bus(s, "SP")
                s2 == data_bus_write(s1, read_u16_high(s1, "PC"))
                s3 == idu_write_into(s2, "SP")
            IN next_step(write_u16(s3, "PC", address))
      [] s.instruction_counter = 3 -> complete(s)
      [] OTHER -> bad_counter(s)

----------------------------------------------------------------------------
(* cpu.rs: execute and clock_cycle *)

\* fn execute(&mut self, instruction): the match over the instruction variant
execute(s, ins) ==
    LET v == ins[1] IN
    CASE v = "LDR" ->
            complete(alu_write_data_register(alu_read_data_register(s, ins[2]), ins[3]))
      [] v = "LDI" -> exec_LDI(s, ins[2])
      [] v = "LD" -> exec_LD(s, ins[2])
      [] v = "LDM" -> exec_LDM(s, ins[2])
      [] v = "LDMI" -> exec_LDMI(s)
      [] v = "LDA_BC" -> exec_LDA_rr(s, "BC")
      [] v = "LDA_DE" -> exec_LDA_rr(s, "DE")
      [] v = "LDAM_BC" -> exec_LDAM_rr(s, "BC")
      [] v = "LDAM_DE" -> exec_LDAM_rr(s, "DE")
      [] v = "LDAD" -> exec_LDAD(s)
      [] v = "LDAMD" -> exec_LDAMD(s)
      [] v = "LDH" -> exec_LDH(s)
      [] v = "LDH_M" -> exec_LDH_M(s)
      [] v = "LDH_D" -> exec_LDH_D(s)
      [] v = "LDH_DM" -> exec_LDH_DM(s)
      [] v = "LDH_HLM" -> exec_LDH_HL_load(s, FALSE)
      [] v = "LDH_HLP" -> exec_LDH_HL_load(s, TRUE)
      [] v = "LDH_HLMM" -> exec_LDH_HL_store(s, FALSE)
      [] v = "LDH_HLPM" -> exec_LDH_HL_store(s, TRUE)
      [] v = "LD_RR" -> exec_LD_RR(s, ins[2])
      [] v = "LD_SP" -> exec_LD_SP(s)
      [] v = "LD_SP_HL" -> exec_LD_SP_HL(s)
      [] v = "PUSH" -> exec_PUSH(s, ins[2])
      [] v = "POP" -> exec_POP(s, ins[2])
      [] v = "LD_SPE" -> exec_LD_SPE(s)
      [] v = "ADD" ->
            complete(alu_write_data_register(add_register(alu_read_data_register(s, "A"), ins[2], FALSE), "A"))
      [] v = "ADC" ->
            complete(alu_write_data_register(add_register(alu_read_data_register(s, "A"), ins[2], TRUE), "A"))
      [] v = "SUB" ->
            complete(alu_write_data_register(sub_register(alu_read_data_register(s, "A"), ins[2], FALSE), "A"))
      [] v = "SBC" ->
            complete(alu_write_data_register(sub_register(alu_read_data_register(s, "A"), ins[2], TRUE), "A"))
      [] v = "CP" ->
            complete(sub_register(alu_read_data_register(s, "A"), ins[2], TRUE))
      [] v = "AND" ->
            complete(alu_write_data_register(alu_and(alu_read_data_register(s, "A"), ins[2]), "A"))
      [] v = "OR" ->
            complete(alu_write_data_register(alu_or(alu_read_data_register(s, "A"), ins[2]), "A"))
      [] v = "XOR" ->
            complete(alu_write_data_register(alu_xor(alu_read_data_register(s, "A"), ins[2]), "A"))
      [] v = "ADD_HL" ->
            substitute(skip_pc(read_data_bus(write_address_bus(s, "HL"), "Z")), <<"ADD", "Z">>)
      [] v = "ADC_HL" ->
            substitute(skip_pc(read_data_bus(write_address_bus(s, "HL"), "Z")), <<"ADC", "Z">>)
      [] v = "SUB_HL" ->
            substitute(skip_pc(read_data_bus(write_address_bus(s, "HL"), "Z")), <<"SUB", "Z">>)
      [] v = "SBC_HL" ->
            substitute(skip_pc(read_data_bus(write_address_bus(s, "HL"), "Z")), <<"SBC", "Z">>)
      [] v = "CP_HL" ->
            substitute(skip_pc(read_data_bus(write_address_bus(s, "HL"), "Z")), <<"CP", "Z">>)
      [] v = "AND_HL" ->
            substitute(skip_pc(read_data_bus(write_address_bus(s, "HL"), "Z")), <<"AND", "Z">>)
      [] v = "OR_HL" ->
            substitute(skip_pc(read_data_bus(write_address_bus(s, "HL"), "Z")), <<"OR", "Z">>)
      [] v = "XOR_HL" ->
            substitute(skip_pc(read_data_bus(write_address_bus(s, "HL"), "Z")), <<"XOR", "Z">>)
      [] v = "ADDI" -> substitute(read_data_bus(s, "Z"), <<"ADD", "Z">>)
      [] v = "ADCI" -> substitute(read_data_bus(s, "Z"), <<"ADC", "Z">>)
      [] v = "SUBI" -> substitute(read_data_bus(s, "Z"), <<"SUB", "Z">>)
      [] v = "SBCI" -> substitute(read_data_bus(s, "Z"), <<"SBC", "Z">>)
      [] v = "CPI" -> substitute(read_data_bus(s, "Z"), <<"CP", "Z">>)
      [] v = "ANDI" -> substitute(skip_pc(read_data_bus(s, "Z")), <<"AND", "Z">>)
      [] v = "ORI" -> substitute(skip_pc(read_data_bus(s, "Z")), <<"OR", "Z">>)
      [] v = "XORI" -> substitute(skip_pc(read_data_bus(s, "Z")), <<"XOR", "Z">>)
      [] v = "INC" ->
            complete(alu_write_data_register(increment(alu_read_data_register(s, ins[2])), ins[2]))
      [] v = "DEC" ->
            complete(alu_write_data_register(decrement(alu_read_data_register(s, ins[2])), ins[2]))
      [] v = "INC_HL" -> exec_INCDEC_HL(s, TRUE)
      [] v = "DEC_HL" -> exec_INCDEC_HL(s, FALSE)
      [] v = "CCF" -> complete(flip_carry(s))
      [] v = "SCF" -> complete(set_carry(s))
      [] v = "DAA" ->
            complete(alu_write_data_register(decimal_adjust(alu_read_data_register(s, "A")), "A"))
      [] v = "CPL" ->
            complete(alu_write_data_register(flip(alu_read_data_register(s, "A")), "A"))
      [] v = "INC_16" -> exec_INC_16(s, ins[2])
      [] v = "DEC_16" -> exec_DEC_16(s, ins[2])
      [] v = "ADD_HL_16" -> exec_ADD_HL_16(s, ins[2])
      [] v = "ADD_SPE" -> exec_ADD_SPE(s)
      [] v = "RLCA" ->
            complete(alu_write_data_register(rotate_left(alu_read_data_register(s, "A"), FALSE), "A"))
      [] v = "RRCA" ->
            complete(alu_write_data_register(rotate_right(alu_read_data_register(s, "A"), FALSE), "A"))
      [] v = "RLA" ->
            complete(alu_write_data_register(rotate_left(alu_read_data_register(s, "A"), TRUE), "A"))
      [] v = "RRA" ->
            complete(alu_write_data_register(rotate_right(alu_read_data_register(s, "A"), TRUE), "A"))
      [] v = "CB" -> exec_CB(s)
      [] v \in {"RLC", "RRC", "RL", "RR", "SLA", "SRA", "SRL", "SWAP"} ->
            complete(alu_write_data_register(
                alu_cb(alu_read_data_register(s, ins[2]), v, 0), ins[2]))
      [] v \in {"RLC_HL", "RRC_HL", "RL_HL", "RR_HL", "SLA_HL", "SRA_HL", "SRL_HL",
                "SWAP_HL"} -> exec_CB_HL(s, v, 0)
      [] v \in {"BIT", "RES", "SET"} ->
            complete(alu_cb(alu_read_data_register(s, ins[3]), v, ins[2]))
      [] v = "BIT_HL" -> exec_BIT_HL(s, ins[2])
      [] v \in {"RES_HL", "SET_HL"} -> exec_CB_HL(s, v, ins[2])
      [] v = "JPI" -> exec_JPI(s)
      [] v = "JP_HL" ->
            complete(skip_pc(idu_increment_into(write_address_bus(s, "HL"), "PC")))
      [] v = "JP_CCI" -> exec_JP_CCI(s, ins[2], ins[3])
      [] v = "JR" -> exec_JR(s)
      [] v = "JR_CC" -> exec_JR_CC(s, ins[2], ins[3])
      [] v = "CALL" -> exec_CALL(s)
      [] v = "CALL_CC" -> exec_CALL_CC(s, ins[2], ins[3])
      [] v = "RET" -> exec_RET(s)
      [] v = "RET_CC" -> exec_RET_CC(s, ins[2], ins[3])
      [] v = "RETI" -> exec_RETI(s)
      [] v = "RST" -> exec_RST(s, ins[2])
      [] v \in {"HALT", "STOP"} -> s
      [] v = "DI" -> complete(disable_interrupts(s))
      [] v = "EI" -> complete(enable_interrupts(s))
      [] v = "NOP" -> complete(s)

\* clock_cycle: `if self.current_instruction.is_none() { ... = Some(self.decode()) }`
decode_if_idle(s) ==
    IF s.current_instruction = None
    THEN IF decode(s)[1] = "PANIC" THEN panic(s, decode(s)[2])
         ELSE substitute(s, decode(s))
    ELSE s

\* clock_cycle: `match self.current_instruction { Some(i) => self.execute(i), .. }`
execute_current(s) ==
    IF s.fault = "none" THEN execute(s, s.current_instruction[1]) ELSE s

\* clock_cycle: latch IR on completion
\* a deliberately wrong latch that keeps the counter of the completed instruction;
\* C13 must reject it
latch_without_reset(s) ==
    IF s.current_instruction = None THEN read_data_bus(s, "IR") ELSE s

latch_if_complete(s) ==
    IF s.current_instruction = None
    THEN read_data_bus(goto_step(s, 0), "IR")
    ELSE s

\* clock_cycle: advance PC through the IDU unless skipped, then clear the skip flag
\* a deliberately wrong advance that increments PC before putting it on the
\* address bus; C14 must reject it
advance_pc_increment_first(s) ==
    [(IF ~s.skip_pc_increment
      THEN address_bus_write(idu_increment_into(address_bus_write(s, read_u16(s, "PC")), "PC"),
                             (read_u16(s, "PC") + 1) % 65536)
      ELSE s) EXCEPT !.skip_pc_increment = FALSE]

advance_pc(s) ==
    [(IF ~s.skip_pc_increment
      THEN idu_increment_into(address_bus_write(s, read_u16(s, "PC")), "PC")
      ELSE s) EXCEPT !.skip_pc_increment = FALSE]

latch_and_advance(s) ==
    IF s.fault = "none" THEN advance_pc(latch_if_complete(s)) ELSE s

\* a panic anywhere inside the call ends the run; the state is left as it was
\* when the call began
abort_or_commit(s, after) ==
    IF after.fault = "none" THEN after ELSE [s EXCEPT !.fault = after.fault]

\* pub fn clock_cycle(&mut self)
clock_cycle(s) ==
    abort_or_commit(s, latch_and_advance(execute_current(decode_if_idle(s))))

----------------------------------------------------------------------------
(* The machine: CPU::new(), the driver of main.rs, the memory collaborator *)

\* the CPU object at the start of a clock_cycle() call
cpu ==
    [data |-> data, data_bus |-> data_bus, address_bus |-> address_bus,
     buffer |-> buffer, ime |-> ime, current_instruction |-> current_instruction,
     instruction_counter |-> instruction_counter,
     skip_pc_increment |-> skip_pc_increment, fault |-> fault,
     overflow_checks |-> overflow_checks, write_intent |-> FALSE]

\* data: [0; REGISTER_FILE_BYTES]
zero_data == [i \in 0..(REGISTER_FILE_BYTES - 1) |-> 0]

hist_new ==
    [op |-> <<"none">>, opcode |-> 0, at |-> None, n |-> 0, done |-> FALSE,
     data0 |-> zero_data, buffer0 |-> 0, inputs |-> <<>>, ir_addr |-> None, bus_addr |-> None,
     skip |-> FALSE, pc |-> 0, address_bus |-> None]

probe_idle == [fn |-> "none", a |-> 0, b |-> 0, c |-> FALSE, applied |-> FALSE, out |-> <<0, 0>>]

\* CPU::new()
CPU_new ==
    /\ data = zero_data
    /\ data_bus = bus_new
    /\ address_bus = bus_new
    /\ buffer = 0
    /\ ime = FALSE
    /\ current_instruction = None
    /\ instruction_counter = 0
    /\ skip_pc_increment = FALSE
    /\ fault = "none"
    /\ write_intent = FALSE

\* a freshly constructed CPU in either build profile, nothing run yet
InitMachine ==
    /\ CPU_new
    /\ overflow_checks \in BOOLEAN
    /\ turn = "bus"
    /\ cycles = 0
    /\ hist = hist_new

\* the byte the memory collaborator holds at address a (unlisted addresses hold 0)
MemRead(m, a) == IF a \in DOMAIN m THEN m[a] ELSE 0

MemStore(m, a, v) == [x \in DOMAIN m \cup {a} |-> IF x = a THEN v ELSE m[x]]

\* cpu.clock_cycle(), with the bookkeeping of the instruction in flight:
\* what was decoded and where its opcode came from, the register file at decode,
\* the data bus content seen by each of its cycles, the number of cycles so far
\* (a call that panics is counted), whether the last call completed it, and what
\* the last call's micro-step left for the PC advance: the skip flag, PC and the
\* address bus
ClockCycle ==
    /\ turn = "clock"
    /\ fault = "none"
    /\ \E s \in {cpu} : \E r \in {clock_cycle(s)} :
       \E mid \in {latch_if_complete(execute_current(decode_if_idle(s)))} :
       LET fresh == current_instruction = None
           completed == r.fault = "none" /\ r.current_instruction = None
       IN
          /\ data' = r.data
          /\ data_bus' = r.data_bus
          /\ address_bus' = r.address_bus
          /\ buffer' = r.buffer
          /\ ime' = r.ime
          /\ current_instruction' = r.current_instruction
          /\ instruction_counter' = r.instruction_counter
          /\ skip_pc_increment' = r.skip_pc_increment
          /\ fault' = r.fault
          /\ write_intent' = r.write_intent
          /\ hist' = [op |-> IF fresh THEN decode(s) ELSE hist.op,
                      opcode |-> IF fresh THEN read_u8(s, "IR") ELSE hist.opcode,
                      at |-> IF fresh THEN hist.ir_addr ELSE hist.at,
                      n |-> IF fresh THEN 1 ELSE hist.n + 1,
                      done |-> completed,
                      data0 |-> IF fresh THEN data ELSE hist.data0,
                      buffer0 |-> IF fresh THEN buffer ELSE hist.buffer0,
                      inputs |-> (IF fresh THEN <<>> ELSE hist.inputs)
                                 \o <<unwrap_or_zero(bus_read(data_bus))>>,
                      ir_addr |-> IF completed THEN hist.bus_addr ELSE hist.ir_addr,
                      bus_addr |-> hist.bus_addr,
                      skip |-> mid.skip_pc_increment,
                      pc |-> read_u16(mid, "PC"),
                      address_bus |-> mid.address_bus]
    /\ turn' = "bus"
    /\ cycles' = cycles + 1
    /\ UNCHANGED <<overflow_checks, script, mem, probe>>

\* main.rs: cpu.data_bus.write(b) before each cpu.clock_cycle()
HarnessWrite ==
    /\ turn = "bus"
    /\ fault = "none"
    /\ script # <<>>
    /\ \E b \in Head(script) :
          data_bus' = bus_write(b)
    /\ script' = Tail(script)
    /\ hist' = [hist EXCEPT !.bus_addr = None]
    /\ turn' = "clock"
    /\ UNCHANGED <<data, address_bus, buffer, ime, current_instruction,
                   instruction_counter, skip_pc_increment, fault, write_intent,
                   overflow_checks, mem, cycles, probe>>

\* number of clock_cycle() calls a run with the memory collaborator is followed for
MaxCycles == 9

\* the memory collaborator between two clock_cycle() calls: it stores the data bus
\* byte when the core wrote one, and places mem[address bus] on the data bus
MemoryRespond ==
    /\ turn = "bus"
    /\ fault = "none"
    /\ cycles < MaxCycles
    /\ IF address_bus = None
       THEN UNCHANGED <<data_bus, mem, hist>>
       ELSE LET a == address_bus[1]
                m == IF write_intent
                     THEN MemStore(mem, a, unwrap_or_zero(bus_read(data_bus)))
                     ELSE mem
            IN /\ mem' = m
               /\ data_bus' = bus_write(MemRead(m, a))
               /\ hist' = [hist EXCEPT !.bus_addr = Some(a)]
    /\ turn' = "clock"
    /\ UNCHANGED <<data, address_bus, buffer, ime, current_instruction,
                   instruction_counter, skip_pc_increment, fault, write_intent,
                   overflow_checks, script, cycles, probe>>

NextHarness == HarnessWrite \/ ClockCycle

\* a run of the driver over the byte script sc
InitHarness(sc) ==
    /\ InitMachine
    /\ script = sc
    /\ mem = <<>>
    /\ probe = probe_idle

\* the register file holding a in A, f in F, bc, de, hl in the pairs and sp in
\* SP, with IR, IE, W, Z and PC zero
RegisterFileWith(a, f, bc, de, hl, sp) ==
    [i \in 0..(REGISTER_FILE_BYTES - 1) |->
        CASE i = index.A -> a
          [] i = index.F -> f
          [] i = index.B -> bc \div 256
          [] i = index.C -> bc % 256
          [] i = index.D -> de \div 256
          [] i = index.E -> de % 256
          [] i = index.H -> hl \div 256
          [] i = index.L -> hl % 256
          [] i = 2 * index.SP - index.PC -> sp % 256
          [] i = 2 * index.SP - index.PC + 1 -> sp \div 256
          [] OTHER -> 0]

\* a run of the driver over the byte script sc that starts between two
\* instructions of a longer run: the registers hold what earlier loads and
\* arithmetic left (one of regs), no instruction is in flight and IR holds NOP
InitMidRun(sc, regs) ==
    /\ data \in regs
    /\ data_bus = bus_new
    /\ address_bus = bus_new
    /\ buffer = 0
    /\ ime = FALSE
    /\ current_instruction = None
    /\ instruction_counter = 0
    /\ skip_pc_increment = FALSE
    /\ fault = "none"
    /\ write_intent = FALSE
    /\ overflow_checks \in BOOLEAN
    /\ turn = "bus"
    /\ cycles = 0
    /\ hist = hist_new
    /\ script = sc
    /\ mem = <<>>
    /\ probe = probe_idle

NextMemory == MemoryRespond \/ ClockCycle

----------------------------------------------------------------------------
(* The 16-bit load scenarios of main.rs: LD rr,nn; LD SP,HL; LD HL,SP+e *)

\* number of generated byte values added to the hand-picked ones
NSamples == 4

\* operand bytes: the values of main.rs (0x00, 0x35, 0xCC), 0xFF, and a spread
ByteSamples == {0, 53, 204, 255} \cup {(i * 37 + 11) % 256 : i \in 1..NSamples}

\* [NOP | SCF] [LD BC|DE|HL,nn] lo hi [LD SP,HL] x [LD HL,SP+e] e x NOP NOP
ScriptLoad16 ==
    << {0, 55}, {1, 17, 33}, ByteSamples, ByteSamples, {249}, {0},
       {248}, ByteSamples, {0}, {0}, {0} >>

SpecLoad16 == InitHarness(ScriptLoad16) /\ [][NextHarness]_vars

\* the register file as it was when the instruction in flight was decoded
at_decode == [data |-> hist.data0]

\* C3: LD rr,nn (rr = BC, DE, HL), given lo on its first cycle and hi on its
\* second, runs without aborting, completes on exactly its 3rd clock_cycle and
\* then rr = hi * 256 + lo.
C3_LdRRImmediate ==
    (hist.op[1] = "LD_RR" /\ hist.op[2] \in {"BC", "DE", "HL"}) =>
        /\ fault = "none"
        /\ hist.done <=> hist.n = 3
        /\ hist.done =>
              read_u16(cpu, hist.op[2]) = hist.inputs[2] * 256 + hist.inputs[1]

\* opcode 0x21 with lo = 0x35, hi = 0x00 has completed and HL = 0x0035
C3_Witness ==
    /\ hist.op = <<"LD_RR", "HL">>
    /\ hist.opcode = 33
    /\ hist.done
    /\ hist.n = 3
    /\ hist.inputs[1] = 53
    /\ hist.inputs[2] = 0
    /\ read_u16(cpu, "HL") = 53

\* C4: LD HL,SP+e runs without aborting, completes on exactly its 3rd cycle, and
\* then HL = (SP + sign_extend(e)) mod 65536, SP is unchanged, Z = 0, N = 0,
\* H = carry out of bit 3 and C = carry out of bit 7 of low(SP) + e.
C4_LdHLSPe ==
    (hist.op[1] = "LD_SPE") =>
        /\ fault = "none"
        /\ hist.done <=> hist.n = 3
        /\ hist.done =>
              LET sp == read_u16(at_decode, "SP")
                  e == hist.inputs[1]
                  sign_extended == IF e >= 128 THEN e - 256 ELSE e
                  f == flags(cpu)
              IN /\ read_u16(cpu, "HL") = (sp + sign_extended) % 65536
                 /\ read_u16(cpu, "SP") = sp
                 /\ ~get_z(f)
                 /\ ~get_n(f)
                 /\ get_h(f) <=> (sp % 16) + (e % 16) >= 16
                 /\ get_c(f) <=> (sp % 256) + e >= 256

\* SP = 0x0035 and e = 0xCC: HL = 0x0001, reached with both carries set
C4_Witness ==
    /\ hist.op = <<"LD_SPE">>
    /\ hist.done
    /\ read_u16(at_decode, "SP") = 53
    /\ hist.inputs[1] = 204
    /\ read_u16(cpu, "HL") = 1
    /\ get_h(flags(cpu))
    /\ get_c(flags(cpu))

\* C5: LD SP,HL runs without aborting, completes on exactly its 2nd cycle, and
\* then SP = HL, with HL and the flags as they were at decode.
C5_LdSPHL ==
    (hist.op[1] = "LD_SP_HL") =>
        /\ fault = "none"
        /\ hist.done <=> hist.n = 2
        /\ hist.done =>
              /\ read_u16(cpu, "SP") = read_u16(at_decode, "HL")
              /\ read_u16(cpu, "HL") = read_u16(at_decode, "HL")
              /\ flags(cpu) = flags(at_decode)

\* HL = 0x0035 with the carry flag set: SP = 0x0035 after the 2nd cycle
C5_Witness ==
    /\ hist.op = <<"LD_SP_HL">>
    /\ hist.done
    /\ hist.n = 2
    /\ read_u16(at_decode, "HL") = 53
    /\ read_u16(at_decode, "SP") = 0
    /\ read_u16(cpu, "SP") = 53
    /\ get_c(flags(cpu))

----------------------------------------------------------------------------
(* The ALU's bitwise adder and subtractor applied directly to every input *)

ProbeInputs(fn) ==
    [fn : {fn}, a : Byte, b : Byte, c : BOOLEAN, applied : {FALSE}, out : {<<0, 0>>}]

InitProbe(inputs) ==
    /\ InitMachine
    /\ overflow_checks
    /\ script = <<>>
    /\ mem = <<>>
    /\ probe \in inputs

ApplyAdd ==
    /\ probe.fn = "add"
    /\ ~probe.applied
    /\ probe' = [probe EXCEPT !.applied = TRUE,
                              !.out = add_with_bitwise_carry(probe.a, probe.b, probe.c)]
    /\ UNCHANGED <<cpu_vars, overflow_checks, turn, script, mem, cycles, hist>>

ApplySub ==
    /\ probe.fn = "sub"
    /\ ~probe.applied
    /\ probe' = [probe EXCEPT !.applied = TRUE,
                              !.out = sub_with_bitwise_carry(probe.a, probe.b, probe.c)]
    /\ UNCHANGED <<cpu_vars, overflow_checks, turn, script, mem, cycles, hist>>

SpecAdd == InitProbe(ProbeInputs("add")) /\ [][ApplyAdd]_vars

SpecSub == InitProbe(ProbeInputs("sub")) /\ [][ApplySub]_vars

\* C6: for all 8-bit a, b and carry-in c, add_with_bitwise_carry(a, b, c) returns
\* (a + b + c) mod 256 and a bitmap whose bit 3 is set exactly when
\* (a mod 16) + (b mod 16) + c >= 16 and whose bit 7 is set exactly when
\* a + b + c >= 256.
C6_AddWithBitwiseCarry ==
    (probe.fn = "add" /\ probe.applied) =>
        LET a == probe.a
            b == probe.b
            c == IF probe.c THEN 1 ELSE 0
        IN /\ probe.out[1] = (a + b + c) % 256
           /\ Bit(probe.out[2], 3) = 1 <=> (a % 16) + (b % 16) + c >= 16
           /\ Bit(probe.out[2], 7) = 1 <=> a + b + c >= 256

\* 0xFF + 0x00 + carry-in: the carry ripples through every bit
C6_Witness ==
    /\ probe.fn = "add"
    /\ probe.applied
    /\ probe.a = 255
    /\ probe.b = 0
    /\ probe.c
    /\ probe.out = <<0, 255>>

\* C7: for all 8-bit a, b and borrow-in c, sub_with_bitwise_carry(a, b, c) returns
\* (a - b - c) mod 256 and a bitmap whose bit 3 is set exactly when
\* (a mod 16) < (b mod 16) + c and whose bit 7 is set exactly when a < b + c.
C7_SubWithBitwiseCarry ==
    (probe.fn = "sub" /\ probe.applied) =>
        LET a == probe.a
            b == probe.b
            c == IF probe.c THEN 1 ELSE 0
        IN /\ probe.out[1] = (a - b - c) % 256
           /\ Bit(probe.out[2], 3) = 1 <=> (a % 16) < (b % 16) + c
           /\ Bit(probe.out[2], 7) = 1 <=> a < b + c

\* 0x00 - 0x00 - borrow-in: the borrow ripples through every bit
C7_Witness ==
    /\ probe.fn = "sub"
    /\ probe.applied
    /\ probe.a = 0
    /\ probe.b = 0
    /\ probe.c
    /\ probe.out = <<255, 255>>

----------------------------------------------------------------------------
(* ALU::decimal_adjust applied directly to every buffer value and flag setting *)

DaaInputs ==
    [fn : {"daa"}, a : Byte, b : 0..15, c : {FALSE}, applied : {FALSE}, out : {<<0, 0>>}]

\* alu.buffer and F are set up, then alu.decimal_adjust() runs
ApplyDecimalAdjust ==
    /\ probe.fn = "daa"
    /\ ~probe.applied
    /\ \E r \in {decimal_adjust([cpu EXCEPT !.buffer = probe.a,
                                           !.data[index.F] = probe.b])} :
          /\ buffer' = r.buffer
          /\ data' = r.data
    /\ probe' = [probe EXCEPT !.applied = TRUE]
    /\ UNCHANGED <<data_bus, address_bus, ime, current_instruction,
                   instruction_counter, skip_pc_increment, fault, write_intent,
                   overflow_checks, turn, script, mem, cycles, hist>>

SpecDaa == InitProbe(DaaInputs) /\ [][ApplyDecimalAdjust]_vars

\* C8: decimal_adjust after an addition (N = 0) adds 0x06 exactly when H is set or
\* the low nibble exceeds 9, and adds 0x60, setting C, exactly when C is set or the
\* value exceeds 0x99; buffer 0x1A with only H set becomes 0x20 with Z, H and C clear.
C8_DecimalAdjustAddPath ==
    (probe.fn = "daa" /\ probe.applied /\ ~get_n(probe.b)) =>
        LET v == probe.a
            low == get_h(probe.b) \/ (v % 16) > 9
            high == get_c(probe.b) \/ v > 153
        IN /\ buffer = (v + (IF low THEN 6 ELSE 0) + (IF high THEN 96 ELSE 0)) % 256
           /\ get_c(flags(cpu)) <=> high
           /\ (v = 26 /\ probe.b = Flags_H) =>
                 /\ buffer = 32
                 /\ ~get_z(flags(cpu))
                 /\ ~get_h(flags(cpu))
                 /\ ~get_c(flags(cpu))

----------------------------------------------------------------------------
(* Conditional branches under the driver: flags set up, then one branch *)

\* [NOP | XOR B] [NOP | SCF] [JR cc | JP cc | CALL cc | RET cc] operands.. NOPs
ScriptBranch ==
    << {0, 168}, {0, 55},
       {32, 40, 48, 56, 194, 202, 210, 218, 196, 204, 212, 220, 192, 200, 208, 216},
       {2, 250}, {0, 1}, {0}, {0}, {0}, {0}, {0}, {0} >>

SpecBranch == InitHarness(ScriptBranch) /\ [][NextHarness]_vars

\* C9: each conditional branch runs without aborting and completes on exactly
\* this clock_cycle: JR cc 2 when not taken / 3 when taken, JP cc 3 / 4,
\* CALL cc 3 / 6, RET cc 2 / 5, for NZ, Z, NC and C.
C9_ConditionalBranchCycles ==
    (hist.op[1] \in {"JR_CC", "JP_CCI", "CALL_CC", "RET_CC"}) =>
        LET taken == condition(at_decode, hist.op[2], hist.op[3])
            count == CASE hist.op[1] = "JR_CC" -> IF taken THEN 3 ELSE 2
                       [] hist.op[1] = "JP_CCI" -> IF taken THEN 4 ELSE 3
                       [] hist.op[1] = "CALL_CC" -> IF taken THEN 6 ELSE 3
                       [] hist.op[1] = "RET_CC" -> IF taken THEN 5 ELSE 2
        IN /\ fault = "none"
           /\ hist.done <=> hist.n = count

----------------------------------------------------------------------------
(* Documented machine-cycle counts under the driver: HL and SP set up, then
   one instruction of each listed kind *)

\* [LD HL,nn] lo hi [LD SP,HL] x [instruction] operands.. NOPs
ScriptCycles ==
    << {33}, {0, 16}, {0, 1}, {249}, {0},
       {65, 83, 6, 46, 70, 94, 54, 250, 8, 197, 229, 193, 209, 205, 201},
       {0, 7}, {0, 1}, {0}, {0}, {0}, {0}, {0} >>

SpecCycles == InitHarness(ScriptCycles) /\ [][NextHarness]_vars

\* C10: each listed instruction runs without aborting and clears
\* current_instruction on exactly its documented cycle, counted from its decode:
\* LD r,r' 1, LD r,n 2, LD r,(HL) 2, LD (HL),n 3, LD A,(nn) 4, LD (nn),SP 5,
\* PUSH rr 4, POP rr 3, CALL nn 6, RET 4.
C10_DocumentedCycleCounts ==
    (hist.op[1] \in {"LDR", "LDI", "LD", "LDMI", "LDAD", "LD_SP", "PUSH", "POP",
                     "CALL", "RET"}) =>
        LET count == CASE hist.op[1] = "LDR" -> 1
                       [] hist.op[1] = "LDI" -> 2
                       [] hist.op[1] = "LD" -> 2
                       [] hist.op[1] = "LDMI" -> 3
                       [] hist.op[1] = "LDAD" -> 4
                       [] hist.op[1] = "LD_SP" -> 5
                       [] hist.op[1] = "PUSH" -> 4
                       [] hist.op[1] = "POP" -> 3
                       [] hist.op[1] = "CALL" -> 6
                       [] hist.op[1] = "RET" -> 4
        IN /\ fault = "none"
           /\ hist.done <=> hist.n = count

----------------------------------------------------------------------------
(* The core under the driver for any opcode: every opcode byte first, then a
   second byte that is an operand, a CB-table opcode or a further opcode *)

\* second bytes: one of each decode_cb branch, the conditional branches on each
\* flag, the CB prefix, STOP, and (HL) / immediate arithmetic
SecondBytes ==
    {0, 6, 14, 16, 22, 40, 48, 54, 56, 62, 64, 70, 71, 126, 134, 192, 200, 216,
     196, 204, 220, 202, 218, 203, 243, 251, 217, 255}

ScriptAny ==
    << 0..255, SecondBytes, {0, 6, 65, 70}, {0}, {0}, {0}, {0}, {0}, {0}, {0} >>

SpecAny == InitHarness(ScriptAny) /\ [][NextHarness]_vars

\* the number of micro-steps each multi-step variant's `match
\* self.instruction_counter` defines (arms 0 .. n-1); a variant that is not listed
\* does not look at the counter
defined_steps ==
    [LDI |-> 2, LD |-> 2, LDM |-> 2, LDMI |-> 3, LDA_BC |-> 2, LDA_DE |-> 2,
     LDAM_BC |-> 2, LDAM_DE |-> 2, LDAD |-> 4, LDAMD |-> 4, LDH |-> 2, LDH_M |-> 2,
     LDH_D |-> 3, LDH_DM |-> 3, LDH_HLM |-> 2, LDH_HLMM |-> 2, LDH_HLP |-> 2,
     LDH_HLPM |-> 2, LD_RR |-> 3, LD_SP |-> 5, LD_SP_HL |-> 2, PUSH |-> 4, POP |-> 3,
     LD_SPE |-> 3, INC_HL |-> 3, DEC_HL |-> 3, INC_16 |-> 2, DEC_16 |-> 2,
     ADD_HL_16 |-> 2, ADD_SPE |-> 4, RLC_HL |-> 3, RRC_HL |-> 3, RL_HL |-> 3,
     RR_HL |-> 3, SLA_HL |-> 3, SRA_HL |-> 3, SRL_HL |-> 3, SWAP_HL |-> 3,
     BIT_HL |-> 2, RES_HL |-> 3, SET_HL |-> 3, JPI |-> 4, JP_CCI |-> 4, JR |-> 3,
     JR_CC |-> 4, CALL |-> 6, CALL_CC |-> 7, RET |-> 4, RET_CC |-> 5, RETI |-> 4,
     RST |-> 4]

\* C11: from the zero-initialized CPU and for every byte sequence on the data
\* bus, execute never reaches a micro-step with no defined procedure: no
\* clock_cycle aborts on an undefined instruction counter, and at every cycle
\* boundary the counter of the instruction in flight is one of its defined steps.
C11_DefinedMicroSteps ==
    /\ fault # "Unimplemented instruction counter for instruction"
    /\ (current_instruction # None /\ current_instruction[1][1] \in DOMAIN defined_steps) =>
          instruction_counter < defined_steps[current_instruction[1][1]]

\* a not-taken RET cc has jumped to its last step, and a CB-prefixed (HL)
\* instruction is in flight past its first step
C11_Witness ==
    /\ fault = "none"
    /\ current_instruction # None
    /\ \/ current_instruction[1][1] = "RET_CC" /\ instruction_counter = 4
       \/ current_instruction[1][1] = "RLC_HL" /\ instruction_counter = 2

\* the largest number of micro-steps any procedure of execute defines (CALL_CC: 0..6)
LongestProcedure == 7

\* C12: every instruction in flight is completed after finitely many further
\* clock_cycle calls, for every decodable opcode including STOP: each call runs one
\* micro-step and no procedure has more than LongestProcedure of them, so an
\* instruction still in flight (and not aborted) has run fewer calls than that.
C12_EveryInstructionCompletes ==
    (current_instruction # None /\ fault = "none") => hist.n < LongestProcedure

\* C13: at every cycle boundary, and so whenever clock_cycle begins a new
\* instruction, an empty current_instruction implies instruction_counter = 0.
C13_CounterZeroWhenIdle ==
    current_instruction = None => instruction_counter = 0

\* an instruction of three or more micro-steps has just completed
C13_Witness ==
    /\ fault = "none"
    /\ hist.done
    /\ hist.n >= 3
    /\ current_instruction = None
    /\ instruction_counter = 0

\* C14: after every clock_cycle that returns: if its micro-step did not set
\* skip_pc_increment, the address bus holds the PC the micro-step left and PC is
\* that value plus one (16-bit); if it did, PC and the address bus are as the
\* micro-step left them; and skip_pc_increment is false.
C14_PcAdvance ==
    (cycles > 0 /\ fault = "none") =>
        /\ ~skip_pc_increment
        /\ IF ~hist.skip
           THEN /\ address_bus = Some(hist.pc)
                /\ read_u16(cpu, "PC") = (hist.pc + 1) % 65536
           ELSE /\ address_bus = hist.address_bus
                /\ read_u16(cpu, "PC") = hist.pc

\* a call whose micro-step set the flag (LD r,(HL) put HL on the address bus), in a
\* run that has also advanced PC
C14_Witness ==
    /\ fault = "none"
    /\ hist.skip
    /\ hist.op[1] = "LD"
    /\ address_bus # None
    /\ read_u16(cpu, "PC") = hist.pc
    /\ hist.pc > 1

\* C19: IME is false after construction, true after every completed EI and
\* after the third cycle of RETI, false after every completed DI, and changed
\* by no other instruction or micro-step
C19_ImeFrame ==
    /\ ~ime
    /\ [][/\ (hist'.op[1] = "EI" /\ hist'.done) => ime'
          /\ (hist'.op[1] = "DI" /\ hist'.done) => ~ime'
          /\ (hist'.op[1] = "RETI" /\ hist'.n = 3 /\ hist.n = 2) => (fault' = "none" /\ ime')
          /\ ime' # ime => hist'.op[1] \in {"EI", "DI", "RETI"}]_vars

\* C20: LD r,r' (opcode 0b01xxxyyy, both fields in 0..5) loads the register
\* selected by bits 5-3 with the value of the register selected by bits 2-0,
\* leaves the source unchanged and completes in one machine cycle
C20_LdRegisterRegister ==
    (/\ hist.op[1] = "LDR"
     /\ hist.opcode \div 64 = 1
     /\ (hist.opcode \div 8) % 8 < DATA_REGISTER_COUNT
     /\ hist.opcode % 8 < DATA_REGISTER_COUNT)
    => \E dst \in {data_register((hist.opcode \div 8) % 8)},
          src \in {data_register(hist.opcode % 8)} :
           /\ fault = "none"
           /\ hist.done
           /\ hist.n = 1
           /\ read_u8(cpu, dst) = hist.data0[index[src]]
           /\ read_u8(cpu, src) = hist.data0[index[src]]

\* C22: ADD SP,e (opcode 0xE8) completes in 4 cycles and leaves
\* SP = (SP + sign_extend(e)) mod 65536
C22_AddSpE ==
    hist.op[1] = "ADD_SPE" =>
        \E sp \in {read_u16([data |-> hist.data0], "SP")}, e \in {hist.inputs[1]} :
            /\ fault = "none"
            /\ hist.done <=> hist.n = 4
            /\ hist.done =>
                   read_u16(cpu, "SP") = (sp + (IF e < 128 THEN e ELSE e + 65280)) % 65536

\* C24: CALL nn, and CALL cc,nn when its condition holds, does not abort (an
\* overflow-checked decrement of SP below 0 aside), and on completion PC holds
\* the address derived from the operand nn and SP is its value before the
\* instruction minus 2
C24_CallTransfersControl ==
    (/\ \/ hist.op[1] = "CALL"
        \/ /\ hist.op[1] = "CALL_CC"
           /\ condition([data |-> hist.data0], hist.op[2], hist.op[3])
     /\ fault # "overflow")
    => /\ fault = "none"
       /\ hist.done =>
             \E nn \in {hist.inputs[2] * 256 + hist.inputs[1]},
                sp \in {read_u16([data |-> hist.data0], "SP")} :
                 /\ read_u16(cpu, "PC") \in {nn, (nn + 1) % 65536}
                 /\ read_u16(cpu, "SP") = (sp + 65534) % 65536

\* C28: every immediate-operand ALU instruction (ADD n, ADC n, SUB n, SBC n,
\* CP n, AND n, OR n, XOR n) takes 2 cycles and advances PC by exactly 2
\* between its decode and its completion
C28_ImmediateAluLength ==
    hist.op[1] \in {"ADDI", "ADCI", "SUBI", "SBCI", "CPI", "ANDI", "ORI", "XORI"} =>
        /\ fault = "none"
        /\ hist.done <=> hist.n = 2
        /\ hist.done =>
              read_u16(cpu, "PC") = (read_u16([data |-> hist.data0], "PC") + 2) % 65536

----------------------------------------------------------------------------
(* RegisterFile and Bus called directly: one write_u16 of every 16-bit value,
   short sequences of any accessor with any register tag, and sequences of
   calls on the data bus alone *)

\* the number of calls of a sequence on the register file, and on the bus alone
MaxCalls == 2
MaxBusCalls == 4

WordSamples == {0, 255, 4660, 65535}

\* probe.call is the last call <<method, register, value>>, probe.out what it
\* returned, probe.data0 and probe.bus0 the register file and the data bus
\* before it, probe.latched the value of the last Bus::write since the last
\* Bus::clear
RegisterFileInputs ==
    [fn : {"register_file"}, mode : {"every_value", "sequence", "bus"}, n : {0},
     call : {<<"new", "A", 0>>}, out : {None}, data0 : {zero_data},
     bus0 : {None}, latched : {None}]

\* one call of a RegisterFile accessor; the assert! of read_u8 / read_u16 is
\* the first statement of the method
RegisterFileCall ==
    /\ probe.fn = "register_file"
    /\ probe.mode # "bus"
    /\ fault = "none"
    /\ probe.n < (IF probe.mode = "every_value" THEN 1 ELSE MaxCalls)
    /\ \E op \in {"read_u8", "read_u16", "write_u8", "write_u16", "read_data_bus"},
          reg \in DOMAIN index,
          v \in (IF probe.mode = "every_value" THEN Word ELSE WordSamples) :
        /\ probe.mode = "every_value" => (op = "write_u16" /\ Is16(reg))
        /\ op = "write_u8" => v \in Byte
        /\ op \in {"read_u8", "read_u16", "read_data_bus"} => v = 0
        /\ \E r \in {CASE op = "read_u8" -> IF Is8(reg) THEN cpu ELSE panic(cpu, "assert")
                       [] op = "read_u16" -> IF Is16(reg) THEN cpu ELSE panic(cpu, "assert")
                       [] op = "write_u8" -> write_u8(cpu, reg, v)
                       [] op = "write_u16" -> write_u16(cpu, reg, v)
                       [] op = "read_data_bus" -> read_data_bus(cpu, reg)} :
            /\ data' = r.data
            /\ data_bus' = r.data_bus
            /\ fault' = r.fault
            /\ probe' = [probe EXCEPT
                   !.n = @ + 1, !.call = <<op, reg, v>>, !.data0 = data, !.bus0 = data_bus,
                   !.out = IF r.fault # "none" THEN None
                           ELSE IF op = "read_u8" THEN Some(read_u8(cpu, reg))
                           ELSE IF op = "read_u16" THEN Some(read_u16(cpu, reg))
                           ELSE None]
    /\ UNCHANGED <<address_bus, buffer, ime, current_instruction, instruction_counter,
                   skip_pc_increment, write_intent, overflow_checks, turn, script,
                   mem, cycles, hist>>

\* one call of Bus::write, Bus::clear or Bus::read on the data bus
BusCall ==
    /\ probe.fn = "register_file"
    /\ probe.mode # "every_value"
    /\ fault = "none"
    /\ probe.n < (IF probe.mode = "bus" THEN MaxBusCalls ELSE MaxCalls)
    /\ \E op \in {"bus_write", "bus_clear", "bus_read"}, v \in WordSamples \cap Byte :
        /\ op # "bus_write" => v = 0
        /\ data_bus' = CASE op = "bus_write" -> bus_write(v)
                         [] op = "bus_clear" -> bus_clear
                         [] op = "bus_read" -> data_bus
        /\ probe' = [probe EXCEPT
               !.n = @ + 1, !.call = <<op, "A", v>>, !.data0 = data, !.bus0 = data_bus,
               !.out = IF op = "bus_read" THEN bus_read(data_bus) ELSE None,
               !.latched = CASE op = "bus_write" -> Some(v)
                             [] op = "bus_clear" -> None
                             [] op = "bus_read" -> @]
    /\ UNCHANGED <<data, address_bus, buffer, ime, current_instruction,
                   instruction_counter, skip_pc_increment, fault, write_intent,
                   overflow_checks, turn, script, mem, cycles, hist>>

NextRegisterFile == RegisterFileCall \/ BusCall

SpecRegisterFile == InitProbe(RegisterFileInputs) /\ [][NextRegisterFile]_vars

\* C15: for each composite register (BC, DE, HL, WZ) and every 16-bit v,
\* write_u16(reg, v) followed by read_u16(reg) gives v, read_u8 of the high
\* constituent gives v div 256 and of the low constituent v mod 256; and after
\* any sequence of write_u8 and write_u16 calls read_u16(reg) is
\* 256 * read_u8(high) + read_u8(low)
C15_CompositeAliasing ==
    (probe.fn = "register_file" /\ fault = "none") =>
        \A p \in 1..REGISTER_PAIR_COUNT :
            \E high \in {REGISTER_PAIRS[p][1]}, low \in {REGISTER_PAIRS[p][2]},
               reg \in {REGISTER_PAIRS[p][3]} :
                /\ read_u16(cpu, reg) = 256 * read_u8(cpu, high) + read_u8(cpu, low)
                /\ probe.call = <<"write_u16", reg, probe.call[3]>> =>
                       /\ read_u16(cpu, reg) = probe.call[3]
                       /\ read_u8(cpu, high) = probe.call[3] \div 256
                       /\ read_u8(cpu, low) = probe.call[3] % 256

C15_Witness ==
    /\ probe.fn = "register_file"
    /\ probe.mode = "every_value"
    /\ fault = "none"
    /\ probe.call = <<"write_u16", "HL", 48879>>
    /\ read_u16(cpu, "HL") = 48879
    /\ read_u8(cpu, "H") = 190
    /\ read_u8(cpu, "L") = 239

\* C16: read_u8 / write_u8 on PC, SP, BC, DE, HL or WZ, and read_u16 /
\* write_u16 on IR, IE, A, F, B, C, D, E, H, L, W or Z, is a fatal error that
\* changes no register
C16_WidthMismatchFaults ==
    (/\ probe.fn = "register_file"
     /\ \/ /\ probe.call[1] \in {"read_u8", "write_u8"}
           /\ probe.call[2] \in {"PC", "SP", "BC", "DE", "HL", "WZ"}
        \/ /\ probe.call[1] \in {"read_u16", "write_u16"}
           /\ probe.call[2] \in {"IR", "IE", "A", "F", "B", "C", "D", "E", "H", "L", "W", "Z"})
    => (fault = "assert" /\ data = probe.data0)

C16_Witness ==
    /\ probe.fn = "register_file"
    /\ probe.call = <<"write_u8", "HL", 255>>
    /\ fault = "assert"
    /\ probe.data0 # zero_data
    /\ data = probe.data0

\* C17: read_data_bus(reg) on an 8-bit register never faults: the register
\* becomes 0 when the data bus is empty and the bus value otherwise, the bus
\* content is unchanged and no other register changes
C17_ReadDataBus ==
    (/\ probe.fn = "register_file"
     /\ probe.call[1] = "read_data_bus"
     /\ probe.call[2] \in {"IR", "IE", "A", "F", "B", "C", "D", "E", "H", "L", "W", "Z"})
    => /\ fault = "none"
       /\ read_u8(cpu, probe.call[2]) = (IF probe.bus0 = None THEN 0 ELSE probe.bus0[1])
       /\ data_bus = probe.bus0
       /\ \A i \in DOMAIN data : i # index[probe.call[2]] => data[i] = probe.data0[i]

C17_Witness ==
    /\ probe.fn = "register_file"
    /\ probe.call = <<"read_data_bus", "A", 0>>
    /\ fault = "none"
    /\ probe.bus0 = None
    /\ read_u8([data |-> probe.data0], "A") = 255
    /\ read_u8(cpu, "A") = 0

\* C18: a new Bus reads empty; after write(v) every read returns v until the
\* next write or clear, however many reads occur; after clear a read returns
\* empty; write(w) after write(v) makes read return w
C18_BusLatch ==
    probe.fn = "register_file" =>
        /\ probe.n = 0 => bus_read(data_bus) = None
        /\ probe.call[1] = "bus_write" => bus_read(data_bus) = Some(probe.call[3])
        /\ probe.call[1] = "bus_clear" => bus_read(data_bus) = None
        /\ probe.call[1] = "bus_read" => (probe.out = probe.latched /\ data_bus = probe.bus0)

C18_Witness ==
    /\ probe.fn = "register_file"
    /\ probe.mode = "bus"
    /\ probe.n = 4
    /\ probe.call[1] = "bus_read"
    /\ probe.bus0 = Some(255)
    /\ probe.out = Some(255)
    /\ probe.latched = Some(255)

----------------------------------------------------------------------------
(* CP B under the driver, for every A, either carry flag and the B values
   whose low nibble is 0, 1 or 15 *)

SpecCompare ==
    /\ InitMidRun(<< {184}, {0} >>,
                  {RegisterFileWith(a, f, b * 256, 0, 0, 0) :
                       a \in Byte, b \in {x \in Byte : x % 16 \in {0, 1, 15}},
                       f \in {0, Flags_C}})
    /\ [][NextHarness]_vars

\* C21: CP r leaves A unchanged and sets Z, N, H and C exactly as SUB r does
\* for the same A and r, for every A, r and prior carry flag
C21_CompareLikeSubtract ==
    (hist.op[1] = "CP" /\ hist.done) =>
        \E sub \in {execute([cpu EXCEPT !.data = hist.data0], <<"SUB", hist.op[2]>>)} :
            /\ read_u8(cpu, "A") = hist.data0[index.A]
            /\ read_u8(cpu, "F") = read_u8(sub, "F")

----------------------------------------------------------------------------
(* ADD HL,BC / ADD HL,DE / ADD HL,HL under the driver, HL and the operand
   drawn from the sample words and either value of Z *)

SpecAddHl ==
    /\ InitMidRun(<< {9, 25, 41}, {0}, {0} >>,
                  {RegisterFileWith(0, f, rr, rr, hl, 0) :
                       rr \in WordSamples \cup {256}, hl \in WordSamples \cup {256},
                       f \in {0, Flags_Z}})
    /\ [][NextHarness]_vars

\* C23: ADD HL,rr (rr in BC, DE, HL) completes in 2 cycles and leaves
\* HL = (HL + rr) mod 65536 with C = carry out of bit 15, N = 0 and Z unchanged
C23_AddHl ==
    hist.op[1] = "ADD_HL_16" =>
        \E hl \in {read_u16([data |-> hist.data0], "HL")},
           rr \in {read_u16([data |-> hist.data0], hist.op[2])} :
            /\ fault = "none"
            /\ hist.done <=> hist.n = 2
            /\ hist.done =>
                  /\ read_u16(cpu, "HL") = (hl + rr) % 65536
                  /\ get_c(flags(cpu)) = (hl + rr >= 65536)
                  /\ ~get_n(flags(cpu))
                  /\ get_z(flags(cpu)) = get_z(hist.data0[index.F])

----------------------------------------------------------------------------
(* LD (nn),SP under the driver, SP drawn from the sample words *)

SpecStoreSp ==
    /\ InitMidRun(<< {8}, {0, 255}, {0, 18}, {0}, {0}, {0} >>,
                  {RegisterFileWith(0, 0, 0, 0, 0, sp) : sp \in WordSamples \cup {256}})
    /\ [][NextHarness]_vars

\* C26: LD (nn),SP (opcode 0x08) presents two memory writes in order: when its
\* third cycle returns the address bus holds nn and the data bus the low byte
\* of SP, when its fourth cycle returns the address bus holds nn+1 and the data
\* bus the high byte of SP; SP is unchanged
C26_StoreSp ==
    (hist.op[1] = "LD_SP" /\ turn = "bus") =>
        \E sp \in {read_u16([data |-> hist.data0], "SP")} :
            /\ fault = "none"
            /\ read_u16(cpu, "SP") = sp
            /\ hist.n = 3 =>
                  /\ address_bus = Some(hist.inputs[2] * 256 + hist.inputs[1])
                  /\ data_bus = Some(sp % 256)
            /\ hist.n = 4 =>
                  /\ address_bus = Some((hist.inputs[2] * 256 + hist.inputs[1] + 1) % 65536)
                  /\ data_bus = Some(sp \div 256)

----------------------------------------------------------------------------
(* PUSH BC / PUSH DE / PUSH HL under the driver, SP and the pair drawn from
   sample words *)

SpecPush ==
    /\ InitMidRun(<< {197, 213, 229}, {0}, {0}, {0}, {0} >>,
                  {RegisterFileWith(0, 0, rr, rr, rr, sp) :
                       rr \in WordSamples, sp \in {2, 256, 4660, 65535}})
    /\ [][NextHarness]_vars

\* C27: PUSH rr with SP = s >= 2 (rr in BC, DE, HL): when its second cycle
\* returns the address bus holds s-1 and the data bus the high byte of rr, when
\* its third cycle returns the address bus holds s-2 and the data bus the low
\* byte of rr; it completes in 4 cycles with SP = s-2 and rr unchanged, and none
\* of its first three cycles lets the PC advance overwrite the address bus
C27_Push ==
    (/\ hist.op[1] = "PUSH"
     /\ hist.op[2] \in {"BC", "DE", "HL"}
     /\ turn = "bus"
     /\ read_u16([data |-> hist.data0], "SP") >= 2)
    => \E s \in {read_u16([data |-> hist.data0], "SP")},
          rr \in {read_u16([data |-> hist.data0], hist.op[2])} :
           /\ fault = "none"
           /\ read_u16(cpu, hist.op[2]) = rr
           /\ hist.done <=> hist.n = 4
           /\ hist.n <= 3 => (hist.skip /\ address_bus = hist.address_bus)
           /\ hist.n = 2 => (address_bus = Some(s - 1) /\ data_bus = Some(rr \div 256))
           /\ hist.n = 3 => (address_bus = Some(s - 2) /\ data_bus = Some(rr % 256))
           /\ hist.done => read_u16(cpu, "SP") = s - 2

C27_Witness ==
    /\ hist.op = <<"PUSH", "HL">>
    /\ hist.done
    /\ hist.n = 4
    /\ fault = "none"
    /\ read_u16([data |-> hist.data0], "SP") = 4660
    /\ read_u16(cpu, "SP") = 4658
    /\ read_u16(cpu, "HL") = 4660

----------------------------------------------------------------------------
(* The (HL) and immediate forms of ADD, ADC, SUB, SBC, CP, AND, OR, XOR under
   the driver, A, the carry flag and the operand byte drawn from samples *)

SpecTail ==
    /\ InitMidRun(<< {134, 142, 150, 158, 166, 174, 182, 190,
                      198, 206, 214, 222, 230, 238, 246, 254},
                     {0, 1, 15, 128, 255}, {0}, {0} >>,
                  {RegisterFileWith(a, f, 0, 0, 0, 0) :
                       a \in {0, 1, 16, 128, 255}, f \in {0, Flags_C}})
    /\ [][NextHarness]_vars

\* C29: for ADD, ADC, SUB, SBC, CP, AND, OR, XOR with a (HL) or immediate
\* operand the first micro-step latches the data bus into Z and replaces
\* current_instruction with the register form on Z without changing
\* instruction_counter; the final A and flags are those of executing the
\* register form with Z holding that byte; the instruction takes 2 cycles
C29_TailSubstitution ==
    hist.op[1] \in {"ADD_HL", "ADC_HL", "SUB_HL", "SBC_HL", "CP_HL", "AND_HL", "OR_HL",
                    "XOR_HL", "ADDI", "ADCI", "SUBI", "SBCI", "CPI", "ANDI", "ORI", "XORI"} =>
        \E form \in {[ADD_HL |-> "ADD", ADC_HL |-> "ADC", SUB_HL |-> "SUB", SBC_HL |-> "SBC",
                      CP_HL |-> "CP", AND_HL |-> "AND", OR_HL |-> "OR", XOR_HL |-> "XOR",
                      ADDI |-> "ADD", ADCI |-> "ADC", SUBI |-> "SUB", SBCI |-> "SBC",
                      CPI |-> "CP", ANDI |-> "AND", ORI |-> "OR", XORI |-> "XOR"][hist.op[1]]} :
        \E ref \in {execute([cpu EXCEPT !.data = [hist.data0 EXCEPT ![index.Z] = hist.inputs[1]]],
                            <<form, "Z">>)} :
            /\ fault = "none"
            /\ hist.done <=> hist.n = 2
            /\ hist.n = 1 =>
                  /\ current_instruction = Some(<<form, "Z">>)
                  /\ instruction_counter = 0
                  /\ read_u8(cpu, "Z") = hist.inputs[1]
            /\ hist.done =>
                  /\ read_u8(cpu, "A") = read_u8(ref, "A")
                  /\ read_u8(cpu, "F") = read_u8(ref, "F")

C29_Witness ==
    /\ hist.op = <<"SBC_HL">>
    /\ hist.done
    /\ hist.n = 2
    /\ fault = "none"
    /\ hist.data0[index.A] = 16
    /\ hist.data0[index.F] = Flags_C
    /\ hist.inputs[1] = 1
    /\ read_u8(cpu, "A") = 14

----------------------------------------------------------------------------
(* The CB prefix under the driver, followed by every second opcode byte *)

SpecCb == InitHarness(<< {203}, 0..255, {0}, {0}, {0}, {0} >>) /\ [][NextHarness]_vars

\* C30: the CB prefix costs one cycle: its micro-step latches the data bus into
\* IR, replaces current_instruction with decode_cb(IR), leaves
\* instruction_counter at 0 and lets PC advance by one; a CB-prefixed register
\* operation completes in 2 cycles in total, a CB-prefixed (HL) rotate or shift
\* in 4 and BIT b,(HL) in 3
C30_CbPrefix ==
    hist.op[1] = "CB" =>
        \E second \in {hist.inputs[1]} :
            /\ fault = "none"
            /\ hist.n = 1 =>
                  /\ read_u8(cpu, "IR") = second
                  /\ current_instruction = Some(decode_cb(second))
                  /\ instruction_counter = 0
                  /\ read_u16(cpu, "PC") = (read_u16([data |-> hist.data0], "PC") + 1) % 65536
            /\ second % 8 # 6 => (hist.done <=> hist.n = 2)
            /\ (second % 8 = 6 /\ second < 64) => (hist.done <=> hist.n = 4)
            /\ (second % 8 = 6 /\ second \in 64..127) => (hist.done <=> hist.n = 3)

\* C31: decode_cb maps the extended opcodes 0x40-0x7F to BIT, 0x80-0xBF to RES
\* and 0xC0-0xFF to SET, each with the bit index held in bits 5-3 of the
\* opcode, so every decoded BIT / RES / SET carries a bit index in 0..7
C31_DecodeCbBitResSet ==
    (hist.op[1] = "CB" /\ hist.n = 1 /\ hist.inputs[1] >= 64) =>
        \E second \in {hist.inputs[1]} :
            /\ fault = "none"
            /\ current_instruction # None
            /\ current_instruction[1][1] \in
                  (IF second < 128 THEN {"BIT", "BIT_HL"}
                   ELSE IF second < 192 THEN {"RES", "RES_HL"}
                   ELSE {"SET", "SET_HL"})
            /\ current_instruction[1][2] = (second \div 8) % 8

\* C32: decode_cb maps the extended opcodes 0x30-0x37 to SWAP (SWAP r for
\* bits 2-0 in 0..5, SWAP (HL) for 0x36, SWAP A for 0x37) and 0x38-0x3F to SRL
\* (SRL r, SRL (HL) for 0x3E, SRL A for 0x3F), faulting on none of them
C32_DecodeCbSwapSrl ==
    (hist.op[1] = "CB" /\ hist.n = 1 /\ hist.inputs[1] \in 48..63) =>
        \E second \in {hist.inputs[1]} :
        \E name \in {IF second < 56 THEN "SWAP" ELSE "SRL"} :
            /\ fault = "none"
            /\ current_instruction =
                  Some(IF second % 8 < DATA_REGISTER_COUNT
                       THEN <<name, data_register(second % 8)>>
                       ELSE IF second % 8 = 6 THEN <<name \o "_HL">>
                       ELSE <<name, "A">>)

\* C33: opcode 0x76 decodes to HALT, not to a load and not to a fault; every
\* other opcode 0b01xxx110 with xxx in 0..5 decodes to LD r,(HL), and every
\* opcode 0b01110yyy with yyy in 0..5 decodes to LD (HL),r
C33_DecodeHalt ==
    (hist.n >= 1 /\ hist.opcode \div 64 = 1) =>
        \E b1 \in {(hist.opcode \div 8) % 8}, b2 \in {hist.opcode % 8} :
            /\ (b1 = 6 /\ b2 = 6) => (hist.op = <<"HALT">> /\ fault = "none")
            /\ (b1 < DATA_REGISTER_COUNT /\ b2 = 6) => hist.op = <<"LD", data_register(b1)>>
            /\ (b1 = 6 /\ b2 < DATA_REGISTER_COUNT) => hist.op = <<"LDM", data_register(b2)>>

----------------------------------------------------------------------------
(* RLCA, RRCA, RLA, RRA on every accumulator value, with the carry flag clear
   and set *)

SpecRotate ==
    /\ InitMidRun(<< {7, 15, 23, 31}, {0} >>,
                  {RegisterFileWith(a, f, 0, 0, 0, 0) : a \in Byte, f \in {0, Flags_C}})
    /\ [][NextHarness]_vars

\* C34: rotate_left and rotate_right are true rotations of the buffer b with the
\* old carry c: RLCA yields (2b mod 256) + bit7(b), RLA (2b mod 256) + c, RRCA
\* (b div 2) + 128 * bit0(b), RRA (b div 2) + 128 * c; C becomes the bit shifted
\* out, N and H are cleared and Z is set exactly when the result is 0
C34_TrueRotation ==
    (hist.op[1] \in {"RLCA", "RRCA", "RLA", "RRA"} /\ hist.n >= 1) =>
        \E b \in {hist.data0[index.A]} :
        \E c \in {IF get_c(hist.data0[index.F]) THEN 1 ELSE 0} :
        \E left \in {hist.op[1] \in {"RLCA", "RLA"}} :
        \E shifted_out \in {IF left THEN b \div 128 ELSE b % 2} :
        \E shifted_in \in {IF hist.op[1] \in {"RLA", "RRA"} THEN c ELSE shifted_out} :
        \E result \in {IF left THEN ((b * 2) % 256) + shifted_in ELSE (b \div 2) + (128 * shifted_in)} :
            /\ fault = "none"
            /\ hist.done
            /\ read_u8(cpu, "A") = result
            /\ buffer = result
            /\ get_c(flags(cpu)) = (shifted_out = 1)
            /\ ~get_n(flags(cpu))
            /\ ~get_h(flags(cpu))
            /\ get_z(flags(cpu)) = (result = 0)

----------------------------------------------------------------------------
(* INC B, DEC B, ADD / ADC / SUB / SBC A,B on sample operands and every
   combination of the N and C flags *)

SpecIncDec ==
    /\ InitMidRun(<< {4, 5, 128, 136, 144, 152}, {0} >>,
                  {RegisterFileWith(a, f, b * 256, 0, 0, 0) :
                       a \in {0, 1, 16, 255}, b \in {0, 1, 2, 15, 16, 128, 255},
                       f \in {0, Flags_N, Flags_C, Flags_N + Flags_C}})
    /\ [][NextHarness]_vars

\* C35: the N flag marks the subtraction family: it is set after sub_register
\* (SUB, SBC) and after decrement (DEC r), and cleared after add_register (ADD,
\* ADC) and increment (INC r); increment and decrement leave C unchanged and set
\* Z exactly when the result is 0
C35_SubtractFlag ==
    (hist.op[1] \in {"INC", "DEC", "ADD", "ADC", "SUB", "SBC"} /\ hist.n >= 1) =>
        /\ fault = "none"
        /\ hist.done
        /\ get_n(flags(cpu)) = (hist.op[1] \in {"DEC", "SUB", "SBC"})
        /\ hist.op[1] \in {"INC", "DEC"} =>
              /\ get_c(flags(cpu)) = get_c(hist.data0[index.F])
              /\ get_z(flags(cpu)) = (buffer = 0)
              /\ read_u8(cpu, hist.op[2]) = buffer

----------------------------------------------------------------------------
(* AND B, XOR B, OR B on every accumulator value, sample operands and flag
   bytes with and without the upper four bits *)

SpecLogic ==
    /\ InitMidRun(<< {160, 168, 176}, {0} >>,
                  {RegisterFileWith(a, f, b * 256, 0, 0, 0) :
                       a \in Byte, b \in {0, 1, 15, 85, 128, 170, 240, 255},
                       f \in {0, Flags_N + Flags_C, 165, 255}})
    /\ [][NextHarness]_vars

\* C36: AND r, OR r and XOR r, for any A and r: A becomes the bitwise result, C
\* and N are cleared, H is set for AND and cleared for OR and XOR, Z is set
\* exactly when the result is 0, and bits 4-7 of F are unchanged
C36_LogicFlags ==
    (hist.op[1] \in {"AND", "OR", "XOR"} /\ hist.n >= 1) =>
        \E a \in {hist.data0[index.A]}, r \in {hist.data0[index[hist.op[2]]]} :
        \E result \in {CASE hist.op[1] = "AND" -> And8(a, r)
                          [] hist.op[1] = "OR" -> Or8(a, r)
                          [] OTHER -> Xor8(a, r)} :
            /\ fault = "none"
            /\ hist.done
            /\ read_u8(cpu, "A") = result
            /\ ~get_c(flags(cpu))
            /\ ~get_n(flags(cpu))
            /\ get_h(flags(cpu)) = (hist.op[1] = "AND")
            /\ get_z(flags(cpu)) = (result = 0)
            /\ flags(cpu) \div 16 = hist.data0[index.F] \div 16

\* OR B has completed with a non-zero result on a flag byte whose upper four
\* bits, C and N were set
C36_Witness ==
    /\ hist.op = <<"OR", "B">>
    /\ hist.done
    /\ hist.data0[index.F] = 255
    /\ read_u8(cpu, "A") = 255
    /\ hist.data0[index.A] = 85
    /\ hist.data0[index.B] = 170
    /\ flags(cpu) = 240

----------------------------------------------------------------------------
(* OR B or CP B, which leave a value in the ALU buffer and in F, followed by
   INC rr / DEC rr (rr in BC, DE, HL) or LD SP,HL *)

SpecIdu ==
    /\ InitMidRun(<< {176, 184}, {3, 19, 35, 11, 27, 43, 249}, {0}, {0} >>,
                  {RegisterFileWith(a, 0, rr, rr, hl, 0) :
                       a \in {0, 90}, rr \in WordSamples, hl \in WordSamples})
    /\ [][NextHarness]_vars

\* C37: the IDU never touches the ALU or the flags: INC rr, DEC rr (rr in BC, DE,
\* HL) and LD SP,HL change only the target register, leaving F and the ALU buffer
\* as they were; INC rr / DEC rr take 2 cycles and leave rr = rr + 1 / rr - 1
\* (16-bit)
C37_IduFrame ==
    (/\ hist.op[1] \in {"INC_16", "DEC_16", "LD_SP_HL"}
     /\ hist.op[1] # "LD_SP_HL" => hist.op[2] \in {"BC", "DE", "HL"}
     /\ hist.n >= 1) =>
        \E target \in {IF hist.op[1] = "LD_SP_HL" THEN "SP" ELSE hist.op[2]} :
        \E bytes \in {IF target = "SP"
                       THEN {2 * index.SP - index.PC, 2 * index.SP - index.PC + 1}
                       ELSE {index[REGISTER_PAIRS[index[target] - index.BC + 1][1]],
                             index[REGISTER_PAIRS[index[target] - index.BC + 1][2]]}} :
            /\ fault = "none"
            /\ flags(cpu) = hist.data0[index.F]
            /\ buffer = hist.buffer0
            /\ \A i \in DOMAIN data :
                  i \notin bytes \cup {index.IR, index.PC, index.PC + 1} => data[i] = hist.data0[i]
            /\ hist.op[1] # "LD_SP_HL" =>
                  /\ hist.done <=> hist.n = 2
                  /\ read_u16(cpu, target) =
                        (read_u16([data |-> hist.data0], target)
                           + (IF hist.op[1] = "INC_16" THEN 1 ELSE 65535)) % 65536

----------------------------------------------------------------------------
(* JP nn and JP cc,nn under the driver, with every combination of Z and C *)

SpecJump ==
    /\ InitMidRun(<< {195, 194, 202, 210, 218}, {0, 2, 255}, {0, 1, 255}, {0}, {0}, {0} >>,
                  {RegisterFileWith(0, f, 0, 0, 0, 0) :
                       f \in {0, Flags_Z, Flags_C, Flags_Z + Flags_C}})
    /\ [][NextHarness]_vars

\* main.rs: `cpu.data_bus.write(b); cpu.clock_cycle();` for each byte of inputs,
\* up to the first panic
RECURSIVE run_cycles(_, _)
run_cycles(s, inputs) ==
    IF inputs = <<>> \/ s.fault # "none" THEN s
    ELSE run_cycles(clock_cycle([s EXCEPT !.data_bus = bus_write(Head(inputs))]),
                    Tail(inputs))

\* C38: when its condition holds, JP cc,nn (NZ, Z, NC, C) completes, and with PC
\* equal to the PC that the unconditional JP nn leaves for the same operand nn
C38_JpSameTarget ==
    (/\ hist.op[1] = "JP_CCI"
     /\ condition(at_decode, hist.op[2], hist.op[3])
     /\ hist.n >= 3) =>
        \E start \in {[cpu EXCEPT !.data = [hist.data0 EXCEPT ![index.IR] = 195],
                                  !.current_instruction = None,
                                  !.instruction_counter = 0,
                                  !.skip_pc_increment = FALSE,
                                  !.fault = "none"]} :
        \E jp \in {run_cycles(start, hist.inputs)} :
            /\ fault = "none"
            /\ jp.fault = "none"
            /\ hist.n >= 4 =>
                  /\ hist.done
                  /\ jp.current_instruction = None
                  /\ read_u16(cpu, "PC") = read_u16(jp, "PC")

----------------------------------------------------------------------------
(* The IDU at the ends of the 16-bit range: NOP, PUSH BC, CALL nn and DEC rr
   with PC at 0 or 0xFFFF and SP and the pairs at 0, 1 or 0xFFFF *)

SpecWrap ==
    /\ InitMidRun(<< {0, 197, 205, 11, 27, 43}, {0}, {0}, {0}, {0}, {0}, {0} >>,
                  {[RegisterFileWith(0, 0, rr, rr, rr, sp) EXCEPT
                        ![index.PC] = pc % 256, ![index.PC + 1] = pc \div 256] :
                       rr \in {0, 1, 65535}, sp \in {0, 1, 65535}, pc \in {0, 65535}})
    /\ [][NextHarness]_vars

\* C39: IDU arithmetic is modulo 2^16 and never faults: the per-cycle PC advance
\* at PC = 0xFFFF stores 0, DEC rr at rr = 0 and the first decrement of PUSH at
\* SP = 0 store 0xFFFF, and NOP, PUSH, CALL and DEC rr complete without error
\* (on their 1st, 4th, 6th and 2nd cycle)
C39_IduWraps ==
    (hist.op[1] \in {"NOP", "PUSH", "CALL", "DEC_16"} /\ hist.n >= 1) =>
        \E pc0 \in {read_u16(at_decode, "PC")}, sp0 \in {read_u16(at_decode, "SP")} :
            /\ fault = "none"
            /\ hist.done <=> hist.n = (CASE hist.op[1] = "NOP" -> 1
                                         [] hist.op[1] = "PUSH" -> 4
                                         [] hist.op[1] = "CALL" -> 6
                                         [] OTHER -> 2)
            /\ hist.op[1] = "NOP" => read_u16(cpu, "PC") = (pc0 + 1) % 65536
            /\ hist.op[1] = "DEC_16" =>
                  read_u16(cpu, hist.op[2]) = (read_u16(at_decode, hist.op[2]) + 65535) % 65536
            /\ (hist.op[1] = "PUSH" /\ hist.n = 1) =>
                  read_u16(cpu, "SP") = (sp0 + 65535) % 65536

----------------------------------------------------------------------------
(* The core attached to the memory collaborator of the external memory contract *)

\* LD HL,nn at 0; one instruction at 3; the byte after it at 4; a data byte at nn
Program(lo, hi, x, after, d) ==
    (0 :> 33) @@ (1 :> lo) @@ (2 :> hi) @@ (3 :> x) @@ (4 :> after)
              @@ ((hi * 256 + lo) :> d)

\* nn in {0x0010, 0x0080, 0x1210, 0x1280}; the instruction at 3 is LD r,(HL) for
\* each r, LD (HL),B, LD (HL),L, LD B,C, LD B,n or LD A,(nn) with nn = after
InitMemory ==
    /\ InitMachine
    /\ script = <<>>
    /\ probe = probe_idle
    /\ \E lo \in {16, 128}, hi \in {0, 18},
          x \in {70, 78, 86, 94, 102, 110, 112, 117, 65, 6, 250},
          after \in {0, 4, 71}, d \in {0, 12, 80} :
          mem = Program(lo, hi, x, after, d)

SpecMemory == InitMemory /\ [][NextMemory]_vars

\* C1: under the memory contract, a completed LD r,(HL) leaves r equal to the
\* memory byte at the address HL held when the instruction was decoded.
C1_LdFromHL ==
    (hist.op[1] = "LD" /\ hist.done) =>
        read_u8(cpu, hist.op[2]) = MemRead(mem, read_u16(at_decode, "HL"))

\* C2: under the memory contract, when an instruction whose opcode was fetched
\* from address a completes, the byte latched into IR is the memory byte right
\* after the instruction's last byte, mem[a + length]; stated for the
\* straight-line instructions NOP, LD r,r', LD r,n, LD r,(HL), LD (HL),r, LD rr,nn.
C2_ProgramOrderFetch ==
    (hist.done /\ hist.at # None
        /\ hist.op[1] \in {"NOP", "LDR", "LDI", "LD", "LDM", "LD_RR"}) =>
        LET length == CASE hist.op[1] = "LD_RR" -> 3
                        [] hist.op[1] = "LDI" -> 2
                        [] OTHER -> 1
        IN read_u8(cpu, "IR") = MemRead(mem, (hist.at[1] + length) % 65536)

\* C25: LD A,(nn) (opcode 0xFA): once Z and W hold the operand bytes and WZ was
\* placed on the address bus, A receives the byte the memory collaborator
\* answers for address nn
C25_LdAFromAddress ==
    (hist.op[1] = "LDAD" /\ hist.done) =>
        \E nn \in {hist.inputs[2] * 256 + hist.inputs[1]} :
            read_u8(cpu, "A") = MemRead(mem, nn)

====
